---- MODULE Spec2Model ----
(***************************************************************************)
(* Model of the IT-news collector back end (tci_core.py) and of its cron   *)
(* entry point (tci_cron_collect.py): the MySQL store, the paginated       *)
(* YouTube fetcher, the classifier, one collection tick and the            *)
(* classification sweep.                                                   *)
(*                                                                         *)
(* Strings are sequences of one-character strings, so that strip(),        *)
(* lower() and LIKE '%..%' are computed and not assumed.  Dates are day    *)
(* numbers, NOW() is the logical clock `now`.  Every SQL statement is one  *)
(* atomic step; a network call is folded into the statement that follows   *)
(* it, since it touches no shared state.                                   *)
(***************************************************************************)
EXTENDS Integers, Sequences, FiniteSets, TLC

----------------------------------------------------------------------------
\* Bounds of the model.
MaxRuns == 4       \* cron invocations in one behaviour
MaxPages == 2      \* pages in one scripted API conversation
MaxUserOps == 2    \* user commands in one behaviour
MaxRejected == 2   \* rejected triggers in one behaviour
MaxDay == 2        \* last day of a behaviour in which the day changes

----------------------------------------------------------------------------
\* Strings.

LowerChar(c) ==
    CASE c = "A" -> "a"
      [] c = "I" -> "i"
      [] c = "G" -> "g"
      [] c = "P" -> "p"
      [] c = "N" -> "n"
      [] OTHER -> c

\* str.lower()
Lower(s) == [i \in 1..Len(s) |-> LowerChar(s[i])]

RECURSIVE LStrip(_)
LStrip(s) == IF s # <<>> /\ Head(s) = " " THEN LStrip(Tail(s)) ELSE s

RECURSIVE RStrip(_)
RStrip(s) ==
    IF s # <<>> /\ s[Len(s)] = " " THEN RStrip(SubSeq(s, 1, Len(s) - 1)) ELSE s

\* str.strip()
Strip(s) == RStrip(LStrip(s))

\* x LIKE CONCAT('%', sub, '%') under the case-insensitive default collation
\* of a utf8mb4 table (no wildcard characters occur in the alphabet).
Like(x, sub) ==
    \E i \in 0..Len(x) :
        /\ i + Len(sub) <= Len(x)
        /\ \A j \in 1..Len(sub) : LowerChar(x[i + j]) = LowerChar(sub[j])

----------------------------------------------------------------------------
\* Universes the inputs are drawn from.

SeedKeyword == <<"i", "t">>                         \* ensure_seed("it")
KwAi == <<"a", "i">>
KwGo == <<"g", "o">>
RawKeywords == {<<"A", "i">>, <<" ", "g", "o">>, <<"a">>}   \* user input

ChannelIds == {"c1", "c2"}
ChannelTitles == {<<"c", "h">>, <<"n", "e", "w">>}

VideoIds == {"v1", "v2"}
StatusSet == {"NEW", "UNWATCHED", "WATCHING", "WATCHED"}
StatusFilters == {""} \cup StatusSet
Queries == {<<>>, <<"a", "i">>, <<"G", "o">>, <<"x">>}

\* Items of a search response: video_id "" is an item without id.videoId,
\* channel_id "" one without snippet.channelId.  A video id occurs with two
\* different payloads (a re-sighting with changed metadata).
Items ==
    { [video_id |-> "v1", channel_id |-> "c1", title |-> <<"A", "i">>,
       description |-> <<"d">>, published_at |-> 1],
      [video_id |-> "v1", channel_id |-> "c2", title |-> <<"g", "o">>,
       description |-> <<"e">>, published_at |-> 2],
      [video_id |-> "v2", channel_id |-> "", title |-> <<"g", "o">>,
       description |-> <<>>, published_at |-> 1],
      [video_id |-> "", channel_id |-> "c1", title |-> <<"x">>,
       description |-> <<>>, published_at |-> 1] }

\* Tag lists the videos endpoint reports.
TagLists == {<<>>, <<<<"A", "i">>, <<" ", "a", "i", " ">>>>, <<<<"g", "o">>, <<"x">>>>}

----------------------------------------------------------------------------
\* The store.  A table is a function from the unique key of its rows to the
\* other columns; hidden_videos is the set of its keys.

VARIABLES
    today,          \* CURDATE() / date.today(), a day number
    now,            \* NOW(), a logical timestamp
    keywords,       \* keyword -> [id, source, created_date, updated_date]
    nextKwId,       \* AUTO_INCREMENT of keywords.id
    channels,       \* channel_id -> [title, created_date, updated_date]
    videos,         \* video_id -> the other columns of videos
    video_tags,     \* <<video_id, tag>> -> collected_date
    hidden_videos   \* set of video_id

storeVars == <<keywords, nextKwId, channels, videos, video_tags, hidden_videos>>

\* The row of function f at key k is replaced or added.
Put(f, k, row) == [x \in DOMAIN f \cup {k} |-> IF x = k THEN row ELSE f[x]]

\* The row at key k is removed.
Drop(f, k) == [x \in DOMAIN f \ {k} |-> f[x]]

\* ensure_seed with ON DUPLICATE KEY UPDATE updated_date =
\* VALUES(updated_date): a conflicting row is made due again.
ensure_seed_refreshing(kws, nid, keyword, day) ==
    LET k == Lower(keyword) IN
    IF k \in DOMAIN kws THEN Put(kws, k, [kws[k] EXCEPT !.updated_date = day - 1])
    ELSE Put(kws, k, [id |-> nid, source |-> "seed",
                     created_date |-> day, updated_date |-> day - 1])

\* Database.ensure_seed: INSERT ... ON DUPLICATE KEY UPDATE keyword = keyword
ensure_seed(kws, nid, keyword, day) ==
    LET k == Lower(keyword) IN
    IF k \in DOMAIN kws THEN kws
    ELSE Put(kws, k, [id |-> nid, source |-> "seed",
                     created_date |-> day, updated_date |-> day - 1])

\* Database.save_manual_keywords: the set comprehension of the loop
ManualSet(raws) == {Lower(Strip(r)) : r \in {x \in raws : x # <<>> /\ Len(Strip(x)) >= 2}}

\* The statement writing yesterday's date, as save_channel does, so that the
\* keyword is due at once.
save_manual_keyword_due(kws, nid, kw, day) ==
    IF kw \in DOMAIN kws
    THEN Put(kws, kw, [kws[kw] EXCEPT !.source = "manual", !.updated_date = day - 1])
    ELSE Put(kws, kw, [id |-> nid, source |-> "manual",
                      created_date |-> day, updated_date |-> day - 1])

\* The statement as INSERT IGNORE: a keyword that exists is left alone.
save_manual_keyword_ignoring(kws, nid, kw, day) ==
    IF kw \in DOMAIN kws THEN kws
    ELSE Put(kws, kw, [id |-> nid, source |-> "manual",
                      created_date |-> day, updated_date |-> day])

\* Database.save_manual_keywords: one INSERT ... ON DUPLICATE KEY UPDATE
\* source, updated_date
save_manual_keyword(kws, nid, kw, day) ==
    IF kw \in DOMAIN kws
    THEN Put(kws, kw, [kws[kw] EXCEPT !.source = "manual", !.updated_date = day])
    ELSE Put(kws, kw, [id |-> nid, source |-> "manual",
                      created_date |-> day, updated_date |-> day])

\* The query with ORDER BY id ASC alone.
get_one_keyword_due_by_id(kws, day) ==
    {k \in DOMAIN kws :
        /\ kws[k].updated_date < day
        /\ \A o \in DOMAIN kws :
              kws[o].updated_date < day => kws[k].id <= kws[o].id}

\* Database.get_one_keyword_due_for_collect: the rows of
\* WHERE updated_date < CURDATE() ORDER BY updated_date ASC, id ASC LIMIT 1
\* (ids are unique, so at most one row); the empty set is None.
get_one_keyword_due_for_collect(kws, day) ==
    {k \in DOMAIN kws :
        /\ kws[k].updated_date < day
        /\ \A o \in DOMAIN kws :
              kws[o].updated_date < day =>
                  \/ kws[k].updated_date < kws[o].updated_date
                  \/ /\ kws[k].updated_date = kws[o].updated_date
                     /\ kws[k].id <= kws[o].id}

\* Database.set_keyword_updated_today: UPDATE ... WHERE keyword = lower(kw)
set_keyword_updated_today(kws, keyword, day) ==
    LET k == Lower(keyword) IN
    IF k \in DOMAIN kws THEN Put(kws, k, [kws[k] EXCEPT !.updated_date = day])
    ELSE kws

\* Database.save_channel
save_channel(chs, channel_id, title, day) ==
    IF channel_id = "" THEN chs
    ELSE IF channel_id \in DOMAIN chs
    THEN Put(chs, channel_id, [chs[channel_id] EXCEPT !.title = Strip(title)])
    ELSE Put(chs, channel_id, [title |-> Strip(title), created_date |-> day,
                              updated_date |-> day - 1])

\* Database.update_channel_title
update_channel_title(chs, channel_id, title) ==
    IF channel_id \in DOMAIN chs
    THEN Put(chs, channel_id, [chs[channel_id] EXCEPT !.title = Strip(title)])
    ELSE chs

\* Database.delete_channel
delete_channel(chs, channel_id) == Drop(chs, channel_id)

\* Database.get_one_channel_due_for_collect: the rows that
\* ORDER BY updated_date ASC, created_date ASC LIMIT 1 may return (the table
\* has no further sort key, so equal rows are returned in any order).
get_one_channel_due_for_collect(chs, day) ==
    {c \in DOMAIN chs :
        /\ chs[c].updated_date < day
        /\ \A o \in DOMAIN chs :
              chs[o].updated_date < day =>
                  \/ chs[c].updated_date < chs[o].updated_date
                  \/ /\ chs[c].updated_date = chs[o].updated_date
                     /\ chs[c].created_date <= chs[o].created_date}

\* Database.set_channel_updated_today
set_channel_updated_today(chs, channel_id, day) ==
    IF channel_id \in DOMAIN chs
    THEN Put(chs, channel_id, [chs[channel_id] EXCEPT !.updated_date = day])
    ELSE chs

\* The statement with watch_updated_at=NOW() in its ON DUPLICATE KEY UPDATE
\* list as well.
upsert_video_touching(vs, payload, ts) ==
    IF payload.video_id \in DOMAIN vs
    THEN Put(vs, payload.video_id,
             [vs[payload.video_id] EXCEPT !.title = payload.title,
                                          !.description = payload.description,
                                          !.published_at = payload.published_at,
                                          !.last_seen_at = ts,
                                          !.watch_updated_at = ts])
    ELSE Put(vs, payload.video_id,
             [id |-> Cardinality(DOMAIN vs) + 1,
              channel_id |-> payload.channel_id,
              title |-> payload.title,
              description |-> payload.description,
              published_at |-> payload.published_at,
              status |-> "NEW",
              last_seen_at |-> ts,
              watch_updated_at |-> ts])

\* The statement written as REPLACE INTO: a conflicting row is deleted and
\* inserted again, so status takes its DEFAULT and watch_updated_at is NOW().
upsert_video_replacing(vs, payload, ts) ==
    Put(vs, payload.video_id,
        [id |-> IF payload.video_id \in DOMAIN vs THEN vs[payload.video_id].id
                ELSE Cardinality(DOMAIN vs) + 1,
         channel_id |-> payload.channel_id,
         title |-> payload.title,
         description |-> payload.description,
         published_at |-> payload.published_at,
         status |-> "NEW",
         last_seen_at |-> ts,
         watch_updated_at |-> ts])

\* Database.upsert_video: INSERT ... ON DUPLICATE KEY UPDATE title,
\* description, published_at, last_seen_at; status takes the column DEFAULT.
upsert_video(vs, payload, ts) ==
    LET v == payload.video_id IN
    IF v \in DOMAIN vs
    THEN Put(vs, v, [vs[v] EXCEPT !.title = payload.title,
                                  !.description = payload.description,
                                  !.published_at = payload.published_at,
                                  !.last_seen_at = ts])
    ELSE Put(vs, v, [id |-> Cardinality(DOMAIN vs) + 1,
                     channel_id |-> payload.channel_id,
                     title |-> payload.title,
                     description |-> payload.description,
                     published_at |-> payload.published_at,
                     status |-> "NEW",
                     last_seen_at |-> ts,
                     watch_updated_at |-> ts])

\* Width of the column video_tags.tag, the 255 of the slice [:255].
TagColumn == 255

\* s[:255]
Truncate(s) == SubSeq(s, 1, IF Len(s) < TagColumn THEN Len(s) ELSE TagColumn)

\* The loop with tag = raw.strip()[:255], the call of lower() left out.
TagSetAsTyped(tags) ==
    {t \in {Truncate(Strip(tags[i])) :
               i \in {j \in 1..Len(tags) : tags[j] # <<>> /\ Len(Strip(tags[j])) >= 2}} :
        Len(t) >= 2}

\* Database.save_tags: the tags the loop inserts: for raw in the set of the
\* t with len(t.strip()) >= 2, tag = raw.strip().lower()[:255], skipped if
\* len(tag) < 2
TagSet(tags) ==
    {t \in {Truncate(Lower(Strip(tags[i]))) :
               i \in {j \in 1..Len(tags) : tags[j] # <<>> /\ Len(Strip(tags[j])) >= 2}} :
        Len(t) >= 2}

\* Database.save_tags: INSERT ... ON DUPLICATE KEY UPDATE collected_date
save_tags(vts, video_id, tags, day) ==
    LET new == {<<video_id, t>> : t \in TagSet(tags)} IN
    [x \in DOMAIN vts \cup new |-> IF x \in new THEN day ELSE vts[x]]

\* An update of the status that refuses to move a video back to NEW.
set_watch_status_forward(vs, video_id, status, ts) ==
    IF video_id \in DOMAIN vs /\ status # "NEW"
    THEN Put(vs, video_id, [vs[video_id] EXCEPT !.status = status,
                                                !.watch_updated_at = ts])
    ELSE vs

\* Database.set_watch_status: UPDATE videos SET status, watch_updated_at
\* WHERE video_id
set_watch_status(vs, video_id, status, ts) ==
    IF video_id \in DOMAIN vs
    THEN Put(vs, video_id, [vs[video_id] EXCEPT !.status = status,
                                                !.watch_updated_at = ts])
    ELSE vs

\* Database.get_new_videos: the video ids of the rows, ORDER BY id ASC
RECURSIVE ById(_, _)
ById(vs, S) ==
    IF S = {} THEN <<>>
    ELSE LET m == CHOOSE v \in S : \A o \in S : vs[v].id <= vs[o].id
         IN <<m>> \o ById(vs, S \ {m})

get_new_videos(vs) == ById(vs, {v \in DOMAIN vs : vs[v].status = "NEW"})

\* Database.hide_video: INSERT IGNORE
hide_video(hid, video_id) == hid \cup {video_id}

\* Database.hide_videos_by_tag
hide_videos_by_tag(hid, vts, tag) ==
    hid \cup {x[1] : x \in {y \in DOMAIN vts : y[2] = Lower(Strip(tag))}}

\* The WHERE clause shared by hide_videos_by_keyword and the listing:
\* title LIKE %q% OR EXISTS (tag LIKE %q%)
TitleOrTagLike(vs, vts, v, q) ==
    \/ Like(vs[v].title, q)
    \/ \E x \in DOMAIN vts : x[1] = v /\ Like(x[2], q)

\* The statement without its OR EXISTS (video_tags) condition.
hide_videos_by_title(hid, vs, vts, keyword) ==
    LET kw == Lower(Strip(keyword)) IN
    hid \cup {v \in DOMAIN vs : Like(vs[v].title, kw)}

\* Database.hide_videos_by_keyword
hide_videos_by_keyword(hid, vs, vts, keyword) ==
    LET kw == Lower(Strip(keyword)) IN
    hid \cup {v \in DOMAIN vs : TitleOrTagLike(vs, vts, v, kw)}

\* Database.delete_keyword: the DELETE statement
delete_keyword_row(kws, keyword) == Drop(kws, Lower(Strip(keyword)))

\* The WHERE clause without its NOT EXISTS (hidden_videos) condition.
ListMatchAll(vs, vts, hid, v, query, status) ==
    /\ query = <<>> \/ TitleOrTagLike(vs, vts, v, query)
    /\ \/ status = ""
       \/ status = "UNWATCHED" /\ vs[v].status \in {"NEW", "UNWATCHED"}
       \/ status # "UNWATCHED" /\ vs[v].status = status

\* The WHERE clause with the plain condition v.status = %s for every
\* status filter.
ListMatchPlain(vs, vts, hid, v, query, status) ==
    /\ query = <<>> \/ TitleOrTagLike(vs, vts, v, query)
    /\ status = "" \/ vs[v].status = status
    /\ v \notin hid

\* Database.list_videos / list_videos_count: the WHERE clause
ListMatch(vs, vts, hid, v, query, status) ==
    /\ query = <<>> \/ TitleOrTagLike(vs, vts, v, query)
    /\ \/ status = ""
       \/ status = "UNWATCHED" /\ vs[v].status \in {"NEW", "UNWATCHED"}
       \/ status # "UNWATCHED" /\ vs[v].status = status
    /\ v \notin hid

\* FIELD(v.status, 'NEW','UNWATCHED','WATCHING','WATCHED')
StatusRank(s) ==
    CASE s = "NEW" -> 1 [] s = "UNWATCHED" -> 2 [] s = "WATCHING" -> 3
      [] s = "WATCHED" -> 4 [] OTHER -> 0

\* ORDER BY v.published_at DESC, FIELD(v.status, ...); rows equal in both
\* keys are listed by id.
ListBefore(vs, a, b) ==
    \/ vs[a].published_at > vs[b].published_at
    \/ /\ vs[a].published_at = vs[b].published_at
       /\ \/ StatusRank(vs[a].status) < StatusRank(vs[b].status)
          \/ /\ StatusRank(vs[a].status) = StatusRank(vs[b].status)
             /\ vs[a].id <= vs[b].id

RECURSIVE ListOrder(_, _)
ListOrder(vs, S) ==
    IF S = {} THEN <<>>
    ELSE LET m == CHOOSE v \in S : \A o \in S : ListBefore(vs, v, o)
         IN <<m>> \o ListOrder(vs, S \ {m})

NoLimit == -1

\* Database.list_videos: the video ids of the rows returned; LIMIT/OFFSET
\* is appended only when both are given.
list_videos(vs, vts, hid, query, status, limit, offset) ==
    LET all == ListOrder(vs, {v \in DOMAIN vs : ListMatch(vs, vts, hid, v, query, status)})
    IN IF limit # NoLimit /\ offset # NoLimit
       THEN SubSeq(all, offset + 1, IF offset + limit < Len(all)
                                    THEN offset + limit ELSE Len(all))
       ELSE all

\* The count without the NOT EXISTS (hidden_videos) condition.
list_videos_count_stored(vs, vts, hid, query, status) ==
    Cardinality({v \in DOMAIN vs : ListMatch(vs, vts, {}, v, query, status)})

\* Database.list_videos_count
list_videos_count(vs, vts, hid, query, status) ==
    Cardinality({v \in DOMAIN vs : ListMatch(vs, vts, hid, v, query, status)})

----------------------------------------------------------------------------
\* The fetcher (YouTubeService).  A page response is what one
\* requests.get + raise_for_status + r.json() yields:
\*   ok          a body with items and, when token, a nextPageToken
\*   http_error  raise_for_status raises requests.HTTPError
\*   conn_error  requests.get raises ConnectionError or Timeout
\*   bad_body    r.json() raises ValueError

PagesOf(items) ==
    [kind : {"ok"}, items : {<<>>} \cup {<<i>> : i \in items}, token : BOOLEAN]
    \cup [kind : {"http_error", "conn_error", "bad_body"}, items : {<<>>}, token : {FALSE}]

\* A page that ends a conversation: an error, or a body without token.
IsLast(pg) == pg.kind # "ok" \/ ~pg.token

\* The conversations, over the given items, of an API that eventually
\* returns a last page.
ScriptsOf(items) ==
    UNION {{s \in [1..n -> PagesOf(items)] :
               /\ \A i \in 1..(n - 1) : ~IsLast(s[i])
               /\ IsLast(s[n])} : n \in 1..MaxPages}

\* The loop body's results.append(...) over payload["items"]
RECURSIVE Flatten(_, _)
Flatten(items, default_channel) ==
    IF items = <<>> THEN <<>>
    ELSE LET it == Head(items) IN
         (IF it.video_id = "" THEN <<>>
          ELSE <<[it EXCEPT !.channel_id =
                     IF it.channel_id = "" THEN default_channel ELSE it.channel_id]>>)
         \o Flatten(Tail(items), default_channel)

\* The while loop of search_latest_paginated / channel_latest_paginated from
\* iteration `page` + 1 on.  trace lists the requests and sleeps in order.
RECURSIVE Paginate(_, _, _, _, _, _)
Paginate(script, max_pages, default_channel, page, results, trace) ==
    LET p == page + 1 IN
    IF (max_pages # NoLimit /\ p > max_pages) \/ p > Len(script)
    THEN [results |-> results, raised |-> FALSE, trace |-> trace]
    ELSE LET pg == script[p]
             tr == Append(trace, "request")
         IN CASE pg.kind = "conn_error" ->
                    [results |-> results, raised |-> TRUE, trace |-> tr]
              [] pg.kind = "http_error" ->
                    [results |-> results, raised |-> FALSE, trace |-> tr]
              [] pg.kind = "bad_body" ->
                    [results |-> results, raised |-> TRUE, trace |-> tr]
              [] OTHER ->
                    LET res == results \o Flatten(pg.items, default_channel) IN
                    IF ~pg.token
                    THEN [results |-> res, raised |-> FALSE, trace |-> tr]
                    ELSE Paginate(script, max_pages, default_channel, p, res,
                                  Append(tr, "sleep"))

\* The search that requests one page only and returns its items.
search_latest_first_page(script, max_pages) ==
    Paginate(script, 1, "", 0, <<>>, <<>>)

\* The search without time.sleep(delay_sec) at the end of its loop body.
search_latest_no_delay(script, max_pages) ==
    LET r == Paginate(script, max_pages, "", 0, <<>>, <<>>)
        IsRequest(x) == x = "request"
    IN [r EXCEPT !.trace = SelectSeq(r.trace, IsRequest)]

\* The search whose loop tests page > max_pages + 1.
search_latest_one_more(script, max_pages) ==
    Paginate(script, IF max_pages = NoLimit THEN NoLimit ELSE max_pages + 1, "", 0,
             <<>>, <<>>)

\* YouTubeService.search_latest_paginated
search_latest_paginated(script, max_pages) ==
    Paginate(script, max_pages, "", 0, <<>>, <<>>)

\* YouTubeService.channel_latest_paginated
channel_latest_paginated(channel_id, script, max_pages) ==
    Paginate(script, max_pages, channel_id, 0, <<>>, <<>>)

\* Responses of the videos endpoint: a kind as above and the tags of
\* items[0].snippet.
TagResponsesOf(taglists) ==
    [kind : {"ok"}, tags : taglists]
    \cup [kind : {"http_error", "conn_error", "bad_body"}, tags : {<<>>}]

\* YouTubeService.video_tags
yt_video_tags(resp) ==
    CASE resp.kind = "http_error" -> [tags |-> <<>>, raised |-> FALSE]
      [] resp.kind = "ok" -> [tags |-> resp.tags, raised |-> FALSE]
      [] OTHER -> [tags |-> <<>>, raised |-> TRUE]

\* Responses of the channels endpoint; title <<>> with kind ok is "no items"
\* or an empty title.
MetaResponsesOf(titles) ==
    [kind : {"ok"}, title : titles \cup {<<>>}]
    \cup [kind : {"http_error", "conn_error", "bad_body"}, title : {<<>>}]

\* YouTubeService.channel_details, reduced to meta.get("title") ("" for None)
channel_details(resp) ==
    CASE resp.kind = "http_error" -> [title |-> <<>>, raised |-> FALSE]
      [] resp.kind = "ok" -> [title |-> resp.title, raised |-> FALSE]
      [] OTHER -> [title |-> <<>>, raised |-> TRUE]

----------------------------------------------------------------------------
\* The classifier (KeywordAI.classify_technical).

\* AI_ENABLED / AI_PROVIDER / AI_API_KEY (or GITHUB_TOKEN) of load_config
AiConfigs ==
    { [enabled |-> FALSE, provider |-> "github_models", key |-> TRUE],
      [enabled |-> TRUE, provider |-> "github_models", key |-> TRUE],
      [enabled |-> TRUE, provider |-> "openai", key |-> FALSE] }

\* AI_ENABLED unset: load_config yields enabled = False.
NoAi == [enabled |-> FALSE, provider |-> "github_models", key |-> FALSE]

\* What the provider call yields: it throws, or message.content is
\*   not_json   text json.loads rejects
\*   no_key     a JSON object without "technical"
\*   not_object JSON that is no object (out.get raises AttributeError)
\*   true/false {"technical": true} / {"technical": false}
ClassifyResponses == {"throws", "not_json", "no_key", "not_object", "true", "false"}

ClassifyFailures == {"throws", "not_json", "no_key"}

\* classify_technical with `except Exception: return False` and
\* out.get("technical", False): fail-closed.
classify_technical_closed(cfg, resp) ==
    IF ~cfg.enabled THEN TRUE
    ELSE IF cfg.provider = "github_models" /\ ~cfg.key THEN TRUE
    ELSE IF ~(cfg.provider = "github_models" \/ (cfg.provider = "openai" /\ cfg.key)) THEN TRUE
    ELSE resp = "true"

\* A classifier that answers true only on the provider's word.
classify_technical_strict(cfg, resp) ==
    cfg.enabled /\ cfg.key /\ resp = "true"

\* KeywordAI.classify_technical
classify_technical(cfg, resp) ==
    IF ~cfg.enabled THEN TRUE
    ELSE IF cfg.provider = "github_models" /\ ~cfg.key THEN TRUE
    ELSE IF ~(cfg.provider = "github_models" \/ (cfg.provider = "openai" /\ cfg.key)) THEN TRUE
    ELSE CASE resp = "throws" -> TRUE
           [] resp = "not_json" -> TRUE
           [] resp = "not_object" -> TRUE
           [] resp = "no_key" -> TRUE
           [] resp = "true" -> TRUE
           [] OTHER -> FALSE

\* Whether classify_technical reaches the provider call.
CallsProvider(cfg) ==
    cfg.enabled /\ (cfg.provider = "github_models" \/ cfg.provider = "openai") /\ cfg.key

----------------------------------------------------------------------------
\* The extractor (KeywordAI.extract).  Hangul syllables are written as one
\* character each, by their romanised names.

Alphanumeric ==
    {"a", "b", "c", "d", "e", "f", "g", "h", "i", "j", "k", "l", "m", "n", "o",
     "p", "q", "r", "s", "t", "u", "v", "w", "x", "y", "z",
     "0", "1", "2", "3", "4", "5", "6", "7", "8", "9"}

Hangul == {"yeong", "sang", "chae", "neol"}

\* The character class of re.findall(r"[a-zA-Z0-9가-힣+#\.]{2,}", text) on a
\* lower-cased text
TokenChars == Alphanumeric \cup Hangul \cup {"+", "#", "."}

\* re.findall on a class: the maximal runs, of two characters or more, of
\* characters of cls in text, from position i on, cur being the run so far
RECURSIVE findall(_, _, _, _)
findall(cls, text, i, cur) ==
    LET done == IF Len(cur) >= 2 THEN <<cur>> ELSE <<>> IN
    IF i > Len(text) THEN done
    ELSE IF text[i] \in cls THEN findall(cls, text, i + 1, Append(cur, text[i]))
    ELSE done \o findall(cls, text, i + 1, <<>>)

\* stop = {"영상", "채널", "today", "news", "shorts", "youtube"}
StopWords ==
    {<<"yeong", "sang">>, <<"chae", "neol">>, <<"t", "o", "d", "a", "y">>,
     <<"n", "e", "w", "s">>, <<"s", "h", "o", "r", "t", "s">>,
     <<"y", "o", "u", "t", "u", "b", "e">>}

\* for w in words: if w not in stop and w not in uniq: uniq.append(w)
RECURSIVE uniq(_, _, _)
uniq(words, i, acc) ==
    IF i > Len(words) THEN acc
    ELSE uniq(words, i + 1,
              IF words[i] \in StopWords \/ (\E j \in 1..Len(acc) : acc[j] = words[i])
              THEN acc ELSE Append(acc, words[i]))

\* What _extract_with_openai / _extract_with_github_models yields: the call
\* throws, or its text is
\*   not_json  text json.loads rejects
\*   not_list  JSON that is no array
\*   empty     []
\*   list      ["k8s"]
ExtractResponses == {"throws", "not_json", "not_list", "empty", "list"}

\* extract without the slice [:5] of its return statement.
extract_uncapped(cfg, resp, title, description) ==
    IF CallsProvider(cfg) /\ resp = "list"
    THEN [results |-> <<<<"k", "8", "s">>>>, raised |-> FALSE,
          trace |-> <<"extract", "provider">>]
    ELSE [results |-> uniq(findall(TokenChars, Lower(title \o <<" ">> \o description),
                                   1, <<>>), 1, <<>>),
          raised |-> FALSE,
          trace |-> IF CallsProvider(cfg) THEN <<"extract", "provider">>
                    ELSE <<"extract">>]

\* extract without the try ... except Exception around the provider branch.
extract_unguarded(cfg, resp, title, description) ==
    IF CallsProvider(cfg) /\ resp = "list"
    THEN [results |-> <<<<"k", "8", "s">>>>, raised |-> FALSE,
          trace |-> <<"extract", "provider">>]
    ELSE IF CallsProvider(cfg) /\ resp \in {"throws", "not_json"}
    THEN [results |-> <<>>, raised |-> TRUE, trace |-> <<"extract", "provider">>]
    ELSE LET u == uniq(findall(TokenChars, Lower(title \o <<" ">> \o description),
                               1, <<>>), 1, <<>>)
         IN [results |-> SubSeq(u, 1, IF Len(u) < 5 THEN Len(u) ELSE 5),
             raised |-> FALSE,
             trace |-> IF CallsProvider(cfg) THEN <<"extract", "provider">>
                       ELSE <<"extract">>]

\* KeywordAI.extract: the keywords of the provider if it is consulted and
\* yields a non-empty list, otherwise uniq[:5] of the heuristic; every
\* exception of the provider branch is caught.  trace tells whether the
\* provider was called.
extract(cfg, resp, title, description) ==
    IF CallsProvider(cfg) /\ resp = "list"
    THEN [results |-> <<<<"k", "8", "s">>>>, raised |-> FALSE,
          trace |-> <<"extract", "provider">>]
    ELSE LET u == uniq(findall(TokenChars, Lower(title \o <<" ">> \o description),
                               1, <<>>), 1, <<>>)
         IN [results |-> SubSeq(u, 1, IF Len(u) < 5 THEN Len(u) ELSE 5),
             raised |-> FALSE,
             trace |-> IF CallsProvider(cfg) THEN <<"extract", "provider">>
                       ELSE <<"extract">>]

----------------------------------------------------------------------------
\* The executors.  "cron" is one invocation after the other of
\* tci_cron_collect.main; the web threads run tci_collect_impl behind the
\* process-wide guard.

Web == {"web1", "web2"}
Procs == {"cron"} \cup Web

VARIABLES
    pc,         \* executor -> the statement it executes next
    selKw,      \* executor -> kw of _tci_collect_next_keyword (<<>>: None)
    selCh,      \* executor -> channel_id of _tci_collect_next_channel ("": None)
    queue,      \* executor -> the videos still to be handled by its loop
    newRows,    \* the rows get_new_videos returned to the sweep, each with
                \* the classifier's response once the sweep handled it
    err,        \* executor -> what raised ("": nothing)
    ai,         \* the KeywordAI configuration load_config reads from .env
    exitCode,   \* return value of the last main(): -1 while none returned
    runs,       \* invocations of main so far
    running,    \* the "tick running" flag of the web process
    rejected,   \* triggers that found the flag set
    delPending, \* <<kw>> while a delete_keyword(kw) is between its two statements
    userOps,    \* user commands so far
    tickLog,    \* keyword selections since the rotation was last disturbed
    catalog,    \* what the platform serves: items, tag lists, channel titles
    fetchIn,    \* arguments of a stand-alone fetcher call
    fetchOut    \* its outcome

procVars == <<pc, selKw, selCh, queue, newRows, err, ai, exitCode, runs, running, rejected>>
userVars == <<delPending, userOps>>
fetchVars == <<catalog, fetchIn, fetchOut>>
clockVars == <<today, now>>
vars == <<clockVars, storeVars, procVars, userVars, tickLog, fetchVars>>

\* A tick is in its channel half once a channel was selected.
InChannelHalf(e) == selCh[e] # ""

\* Statements of a tick, of the sweep, and of both.
TickPcs == {"seed", "pick_kw", "fetch_kw", "upsert", "tags", "mark", "pick_ch",
            "meta", "fetch_ch", "end"}
SweepPcs == {"sweep_read", "sweep_item"}

\* Program points that execute an SQL statement.
StorePcs == {"seed", "pick_kw", "upsert", "tags", "mark", "pick_ch", "meta",
             "sweep_read", "sweep_item"}

Goto(e, l) == pc' = [pc EXCEPT ![e] = l]

\* An exception leaves the function that is executing.
Raise(e, what) ==
    /\ pc' = [pc EXCEPT ![e] = "raised"]
    /\ err' = [err EXCEPT ![e] = what]

\* An entry of tickLog: the keyword a cron tick selected, its sort key at
\* that moment, whether a page request of its fetch failed, and whether the
\* store failed before the half ended.
LogEntry(kw, updated_date, id) ==
    [kw |-> kw, updated_date |-> updated_date, id |-> id,
     failed |-> FALSE, store |-> FALSE]

Logged(e, entry) == IF e = "cron" THEN Append(tickLog, entry) ELSE tickLog

\* The entry of the selection in progress records a failed page request.
LogFailed(e, failed) ==
    IF e = "cron" /\ tickLog # <<>> /\ failed
    THEN [tickLog EXCEPT ![Len(tickLog)].failed = TRUE]
    ELSE tickLog

\* The entry of the selection in progress records a failure of the store.
LogStore(e) ==
    IF e = "cron" /\ tickLog # <<>> /\ ~InChannelHalf(e)
       /\ pc[e] \in {"upsert", "tags", "mark"}
    THEN [tickLog EXCEPT ![Len(tickLog)].store = TRUE]
    ELSE tickLog

\* A page request of the conversation fails.
HasFailure(script) == \E i \in 1..Len(script) : script[i].kind # "ok"

\* tci_collect_impl: tci_db.ensure_seed("it")
Seed(e) ==
    /\ pc[e] = "seed"
    /\ keywords' = ensure_seed(keywords, nextKwId, SeedKeyword, today)
    /\ nextKwId' = IF keywords' = keywords THEN nextKwId ELSE nextKwId + 1
    /\ Goto(e, "pick_kw")
    /\ UNCHANGED <<clockVars, channels, videos, video_tags, hidden_videos,
                   selKw, selCh, queue, err, ai, exitCode, runs, running, rejected, newRows,
                   userVars, tickLog, fetchVars>>

\* _tci_collect_next_keyword: kw = get_one_keyword_due_for_collect()
PickKeyword(e) ==
    /\ pc[e] = "pick_kw"
    /\ LET due == get_one_keyword_due_for_collect(keywords, today) IN
       IF due = {}
       THEN /\ selKw' = [selKw EXCEPT ![e] = <<>>]
            /\ Goto(e, "pick_ch")
            /\ UNCHANGED tickLog
       ELSE \E k \in due :
            /\ selKw' = [selKw EXCEPT ![e] = k]
            /\ Goto(e, "fetch_kw")
            /\ tickLog' = Logged(e, LogEntry(k, keywords[k].updated_date, keywords[k].id))
    /\ UNCHANGED <<clockVars, storeVars, selCh, queue, err, ai, exitCode, runs,
                   running, rejected, newRows, userVars, fetchVars>>

\* After a fetch or an item: the next statement of the loop, or the mark.
AfterItems(e, rest) ==
    /\ queue' = [queue EXCEPT ![e] = rest]
    /\ Goto(e, IF rest = <<>> THEN "mark" ELSE "upsert")

\* _tci_collect_for_keyword: tci_yt.search_latest_paginated(kw, max_results=50)
FetchKeyword(e) ==
    /\ pc[e] = "fetch_kw"
    /\ \E script \in ScriptsOf(catalog.items) :
         LET r == search_latest_paginated(script, NoLimit) IN
         /\ IF r.raised
            THEN Raise(e, "fetch") /\ UNCHANGED queue
            ELSE AfterItems(e, r.results) /\ UNCHANGED err
         /\ tickLog' = LogFailed(e, HasFailure(script))
    /\ UNCHANGED <<clockVars, storeVars, selKw, selCh, ai, exitCode, runs, running, rejected, newRows,
                   userVars, fetchVars>>

\* _tci_collect_for_channel: tci_yt.channel_latest_paginated(channel_id, ...)
FetchChannel(e) ==
    /\ pc[e] = "fetch_ch"
    /\ \E script \in ScriptsOf(catalog.items) :
         LET r == channel_latest_paginated(selCh[e], script, NoLimit) IN
         IF r.raised
         THEN Raise(e, "fetch") /\ UNCHANGED queue
         ELSE AfterItems(e, r.results) /\ UNCHANGED err
    /\ UNCHANGED <<clockVars, storeVars, selKw, selCh, ai, exitCode, runs, running,
                   rejected, newRows, userVars, tickLog, fetchVars>>

\* _tci_collect_for_keyword / _tci_collect_for_channel: tci_db.upsert_video(video)
Upsert(e) ==
    /\ pc[e] = "upsert"
    /\ videos' = upsert_video(videos, Head(queue[e]), now)
    /\ Goto(e, "tags")
    /\ UNCHANGED <<clockVars, keywords, nextKwId, channels, video_tags, hidden_videos,
                   selKw, selCh, queue, err, ai, exitCode, runs, running, rejected, newRows,
                   userVars, tickLog, fetchVars>>

\* The statement with an else branch that stores words of the title as
\* tags when the platform reports none.
TagsOrTitle(e) ==
    /\ pc[e] = "tags"
    /\ \E resp \in TagResponsesOf(catalog.tags) :
         LET r == yt_video_tags(resp) IN
         IF r.raised
         THEN /\ Raise(e, "tags")
              /\ UNCHANGED <<video_tags, queue>>
         ELSE /\ video_tags' = save_tags(video_tags, Head(queue[e]).video_id,
                                         IF r.tags # <<>> THEN r.tags
                                         ELSE <<Head(queue[e]).title>>, today)
              /\ AfterItems(e, Tail(queue[e]))
              /\ UNCHANGED err
    /\ UNCHANGED <<clockVars, keywords, nextKwId, channels, videos, hidden_videos,
                   selKw, selCh, ai, exitCode, runs, running, rejected, newRows, userVars, tickLog,
                   fetchVars>>

\* tags = tci_yt.video_tags(video["video_id"]); if tags: tci_db.save_tags(...)
Tags(e) ==
    /\ pc[e] = "tags"
    /\ \E resp \in TagResponsesOf(catalog.tags) :
         LET r == yt_video_tags(resp) IN
         IF r.raised
         THEN /\ Raise(e, "tags")
              /\ UNCHANGED <<video_tags, queue>>
         ELSE /\ video_tags' = IF r.tags # <<>>
                               THEN save_tags(video_tags, Head(queue[e]).video_id, r.tags, today)
                               ELSE video_tags
              /\ AfterItems(e, Tail(queue[e]))
              /\ UNCHANGED err
    /\ UNCHANGED <<clockVars, keywords, nextKwId, channels, videos, hidden_videos,
                   selKw, selCh, ai, exitCode, runs, running, rejected, newRows, userVars, tickLog,
                   fetchVars>>

\* tci_db.set_keyword_updated_today(kw) / tci_db.set_channel_updated_today(channel_id)
Mark(e) ==
    /\ pc[e] = "mark"
    /\ IF InChannelHalf(e)
       THEN /\ channels' = set_channel_updated_today(channels, selCh[e], today)
            /\ Goto(e, "end")
            /\ UNCHANGED keywords
       ELSE /\ keywords' = set_keyword_updated_today(keywords, selKw[e], today)
            /\ Goto(e, "pick_ch")
            /\ UNCHANGED channels
    /\ UNCHANGED <<clockVars, nextKwId, videos, video_tags, hidden_videos,
                   selKw, selCh, queue, err, ai, exitCode, runs, running, rejected, newRows,
                   userVars, tickLog, fetchVars>>

\* _tci_collect_next_channel: channel = get_one_channel_due_for_collect()
PickChannel(e) ==
    /\ pc[e] = "pick_ch"
    /\ LET due == get_one_channel_due_for_collect(channels, today) IN
       IF due = {}
       THEN Goto(e, "end") /\ UNCHANGED selCh
       ELSE \E c \in due :
            /\ selCh' = [selCh EXCEPT ![e] = c]
            /\ Goto(e, "meta")
    /\ UNCHANGED <<clockVars, storeVars, selKw, queue, err, ai, exitCode, runs,
                   running, rejected, newRows, userVars, tickLog, fetchVars>>

\* _tci_collect_for_channel: channel_details, then update_channel_title
Meta(e) ==
    /\ pc[e] = "meta"
    /\ \E resp \in MetaResponsesOf(catalog.titles) :
         LET r == channel_details(resp) IN
         IF r.raised
         THEN Raise(e, "meta") /\ UNCHANGED channels
         ELSE /\ channels' = IF r.title # <<>>
                             THEN update_channel_title(channels, selCh[e], r.title)
                             ELSE channels
              /\ Goto(e, "fetch_ch")
              /\ UNCHANGED err
    /\ UNCHANGED <<clockVars, keywords, nextKwId, videos, video_tags, hidden_videos,
                   selKw, selCh, queue, ai, exitCode, runs, running, rejected, newRows, userVars,
                   tickLog, fetchVars>>

\* The store is unreachable when the next SQL statement is executed.
StoreFail(e) ==
    /\ pc[e] \in StorePcs
    /\ Raise(e, "store")
    /\ tickLog' = LogStore(e)
    /\ UNCHANGED <<clockVars, storeVars, selKw, selCh, queue, ai, exitCode, runs,
                   running, rejected, newRows, userVars, fetchVars>>

----------------------------------------------------------------------------
\* tci_cron_collect.main and the classification sweep.

\* UPDATE ... SET updated_date = CURDATE() - INTERVAL 1 DAY, on every row
ResetDue(tbl, day) == [k \in DOMAIN tbl |-> [tbl[k] EXCEPT !.updated_date = day - 1]]

\* main: load_config, Database(cfg), the --reset-due block, the services
CronStart ==
    /\ pc["cron"] \in {"idle", "done"}
    /\ runs < MaxRuns
    /\ runs' = runs + 1
    /\ exitCode' = -1
    /\ \E reset_due \in BOOLEAN :
         IF reset_due
         THEN /\ keywords' = ResetDue(keywords, today)
              /\ channels' = ResetDue(channels, today)
              /\ tickLog' = <<>>
         ELSE UNCHANGED <<keywords, channels, tickLog>>
    /\ pc' = [pc EXCEPT !["cron"] = "seed"]
    /\ selKw' = [selKw EXCEPT !["cron"] = <<>>]
    /\ selCh' = [selCh EXCEPT !["cron"] = ""]
    /\ queue' = [queue EXCEPT !["cron"] = <<>>]
    /\ err' = [err EXCEPT !["cron"] = ""]
    /\ newRows' = <<>>
    /\ UNCHANGED <<clockVars, nextKwId, videos, video_tags, hidden_videos, ai,
                   running, rejected, userVars, fetchVars>>

\* main: Database(cfg) cannot connect; the except clause returns 1
CronConnectFail ==
    /\ pc["cron"] \in {"idle", "done"}
    /\ runs < MaxRuns
    /\ runs' = runs + 1
    /\ exitCode' = 1
    /\ pc' = [pc EXCEPT !["cron"] = "done"]
    /\ UNCHANGED <<clockVars, storeVars, selKw, selCh, queue, newRows, err, ai,
                   running, rejected, userVars, tickLog, fetchVars>>

\* main: tci_collect_one_due_keyword returned
TickReturns ==
    /\ pc["cron"] = "end"
    /\ pc' = [pc EXCEPT !["cron"] = "sweep_read"]
    /\ UNCHANGED <<clockVars, storeVars, selKw, selCh, queue, newRows, err, ai,
                   exitCode, runs, running, rejected, userVars, tickLog, fetchVars>>

\* The process of main ends: its locals are gone.
ProcessExit(code) ==
    /\ exitCode' = code
    /\ pc' = [pc EXCEPT !["cron"] = "done"]
    /\ selKw' = [selKw EXCEPT !["cron"] = <<>>]
    /\ selCh' = [selCh EXCEPT !["cron"] = ""]
    /\ queue' = [queue EXCEPT !["cron"] = <<>>]
    /\ err' = [err EXCEPT !["cron"] = ""]
    /\ newRows' = <<>>

\* main with an except clause that logs and returns 0.
MainFailsQuietly ==
    /\ pc["cron"] = "raised"
    /\ ProcessExit(0)
    /\ UNCHANGED <<clockVars, storeVars, ai, runs, running, rejected, userVars,
                   tickLog, fetchVars>>

\* main: except Exception -> return 1
MainFails ==
    /\ pc["cron"] = "raised"
    /\ ProcessExit(1)
    /\ UNCHANGED <<clockVars, storeVars, ai, runs, running, rejected, userVars,
                   tickLog, fetchVars>>

\* main: db.conn.close(); return 0
MainReturns ==
    /\ pc["cron"] = "sweep_done"
    /\ ProcessExit(0)
    /\ UNCHANGED <<clockVars, storeVars, ai, runs, running, rejected, userVars,
                   tickLog, fetchVars>>

\* The for loop of the sweep goes on, or tci_classify_new_videos returns.
SweepNext(rows) ==
    pc' = [pc EXCEPT !["cron"] =
              IF \E i \in 1..Len(rows) : rows[i].response = ""
              THEN "sweep_item" ELSE "sweep_done"]

\* tci_classify_new_videos: for ... in tci_db.get_new_videos()
SweepRead ==
    /\ pc["cron"] = "sweep_read"
    /\ LET ids == get_new_videos(videos) IN
       newRows' = [i \in 1..Len(ids) |-> [video_id |-> ids[i], response |-> ""]]
    /\ SweepNext(newRows')
    /\ UNCHANGED <<clockVars, storeVars, selKw, selCh, queue, err, ai, exitCode, runs,
                   running, rejected, userVars, tickLog, fetchVars>>

\* The first row the sweep has not handled yet.
SweepIndex == CHOOSE i \in 1..Len(newRows) :
                  /\ newRows[i].response = ""
                  /\ \A j \in 1..(i - 1) : newRows[j].response # ""

\* A sweep that writes the status of every row it classified: UNWATCHED
\* or, again, NEW.
SweepItemTouching ==
    /\ pc["cron"] = "sweep_item"
    /\ \E resp \in (IF CallsProvider(ai) THEN ClassifyResponses ELSE {"none"}) :
         LET i == SweepIndex
             v == newRows[i].video_id
         IN /\ videos' = IF classify_technical(ai, resp)
                         THEN set_watch_status(videos, v, "UNWATCHED", now)
                         ELSE set_watch_status(videos, v, "NEW", now)
            /\ newRows' = [newRows EXCEPT ![i].response = resp]
    /\ SweepNext(newRows')
    /\ UNCHANGED <<clockVars, keywords, nextKwId, channels, video_tags, hidden_videos,
                   selKw, selCh, queue, err, ai, exitCode, runs, running, rejected,
                   userVars, tickLog, fetchVars>>

\* tci_classify_new_videos: if classify_technical(...): set_watch_status(...)
SweepItem ==
    /\ pc["cron"] = "sweep_item"
    /\ \E resp \in (IF CallsProvider(ai) THEN ClassifyResponses ELSE {"none"}) :
         LET i == SweepIndex
             v == newRows[i].video_id
         IN /\ videos' = IF classify_technical(ai, resp)
                         THEN set_watch_status(videos, v, "UNWATCHED", now)
                         ELSE videos
            /\ newRows' = [newRows EXCEPT ![i].response = resp]
    /\ SweepNext(newRows')
    /\ UNCHANGED <<clockVars, keywords, nextKwId, channels, video_tags, hidden_videos,
                   selKw, selCh, queue, err, ai, exitCode, runs, running, rejected,
                   userVars, tickLog, fetchVars>>

----------------------------------------------------------------------------
\* The manual trigger of the web process: a mutex-protected boolean.  The
\* web application (tci_core.py is shared by it and by the cron script) is
\* not among the modelled source files; the trigger follows the scheduling
\* model of the specification, the tick it starts is tci_collect_impl.

\* A trigger that starts its tick without looking at the flag.
WebTriggerUnguarded(t) ==
    /\ pc[t] = "idle"
    /\ running' = TRUE
    /\ pc' = [pc EXCEPT ![t] = "seed"]
    /\ selKw' = [selKw EXCEPT ![t] = <<>>]
    /\ selCh' = [selCh EXCEPT ![t] = ""]
    /\ queue' = [queue EXCEPT ![t] = <<>>]
    /\ err' = [err EXCEPT ![t] = ""]
    /\ UNCHANGED <<clockVars, storeVars, newRows, ai, exitCode, runs, rejected,
                   userVars, tickLog, fetchVars>>

\* A trigger arrives: under the mutex, return if the flag is set, else set it.
WebTrigger(t) ==
    /\ pc[t] = "idle"
    /\ IF running
       THEN /\ rejected < MaxRejected
            /\ rejected' = rejected + 1
            /\ UNCHANGED <<pc, running, selKw, selCh, queue, err>>
       ELSE /\ running' = TRUE
            /\ pc' = [pc EXCEPT ![t] = "seed"]
            /\ selKw' = [selKw EXCEPT ![t] = <<>>]
            /\ selCh' = [selCh EXCEPT ![t] = ""]
            /\ queue' = [queue EXCEPT ![t] = <<>>]
            /\ err' = [err EXCEPT ![t] = ""]
            /\ UNCHANGED rejected
    /\ UNCHANGED <<clockVars, storeVars, newRows, ai, exitCode, runs, userVars,
                   tickLog, fetchVars>>

\* The tick of a web thread returned or raised: the flag is cleared.
WebRelease(t) ==
    /\ pc[t] \in {"end", "raised"}
    /\ running' = FALSE
    /\ pc' = [pc EXCEPT ![t] = "idle"]
    /\ UNCHANGED <<clockVars, storeVars, selKw, selCh, queue, newRows, err, ai,
                   exitCode, runs, rejected, userVars, tickLog, fetchVars>>

----------------------------------------------------------------------------
\* Commands of the presentation layer, each one statement on the shared store.

UserStep == userOps < MaxUserOps /\ userOps' = userOps + 1

\* set video status
UserSetStatus(v, st) ==
    /\ UserStep
    /\ videos' = set_watch_status(videos, v, st, now)
    /\ UNCHANGED <<clockVars, keywords, nextKwId, channels, video_tags, hidden_videos,
                   procVars, delPending, tickLog, fetchVars>>

\* A hide command that also marks the video as watched.
UserHideWatched(v) ==
    /\ UserStep
    /\ hidden_videos' = hide_video(hidden_videos, v)
    /\ videos' = set_watch_status(videos, v, "WATCHED", now)
    /\ UNCHANGED <<clockVars, keywords, nextKwId, channels, video_tags,
                   procVars, delPending, tickLog, fetchVars>>

\* hide video
UserHide(v) ==
    /\ UserStep
    /\ hidden_videos' = hide_video(hidden_videos, v)
    /\ UNCHANGED <<clockVars, keywords, nextKwId, channels, videos, video_tags,
                   procVars, delPending, tickLog, fetchVars>>

\* hide the videos of a tag
UserHideByTag(tag) ==
    /\ UserStep
    /\ hidden_videos' = hide_videos_by_tag(hidden_videos, video_tags, tag)
    /\ UNCHANGED <<clockVars, keywords, nextKwId, channels, videos, video_tags,
                   procVars, delPending, tickLog, fetchVars>>

\* Database.delete_keyword, first statement: self.hide_videos_by_keyword(kw)
UserDeleteKeywordHide(k) ==
    /\ UserStep
    /\ delPending = <<>>
    /\ hidden_videos' = hide_videos_by_keyword(hidden_videos, videos, video_tags,
                                               Lower(Strip(k)))
    /\ delPending' = <<Lower(Strip(k))>>
    /\ UNCHANGED <<clockVars, keywords, nextKwId, channels, videos, video_tags,
                   procVars, tickLog, fetchVars>>

\* Database.delete_keyword, second statement: DELETE FROM keywords
UserDeleteKeywordRow ==
    /\ delPending # <<>>
    /\ keywords' = delete_keyword_row(keywords, delPending[1])
    /\ delPending' = <<>>
    /\ tickLog' = <<>>
    /\ UNCHANGED <<clockVars, nextKwId, channels, videos, video_tags, hidden_videos,
                   procVars, userOps, fetchVars>>

\* An add keyword that shows the videos of the keyword again.
UserAddKeywordUnhide(raw) ==
    /\ UserStep
    /\ LET todo == ManualSet({raw}) IN
       IF todo = {}
       THEN UNCHANGED <<keywords, nextKwId, tickLog, hidden_videos>>
       ELSE \E kw \in todo :
            /\ keywords' = save_manual_keyword(keywords, nextKwId, kw, today)
            /\ nextKwId' = IF kw \in DOMAIN keywords THEN nextKwId ELSE nextKwId + 1
            /\ tickLog' = <<>>
            /\ hidden_videos' =
                  {v \in hidden_videos :
                      v \in DOMAIN videos => ~TitleOrTagLike(videos, video_tags, v, kw)}
    /\ UNCHANGED <<clockVars, channels, videos, video_tags,
                   procVars, delPending, fetchVars>>

\* add keyword: save_manual_keywords([raw])
UserAddKeyword(raw) ==
    /\ UserStep
    /\ LET todo == ManualSet({raw}) IN
       IF todo = {}
       THEN UNCHANGED <<keywords, nextKwId, tickLog>>
       ELSE \E kw \in todo :
            /\ keywords' = save_manual_keyword(keywords, nextKwId, kw, today)
            /\ nextKwId' = IF kw \in DOMAIN keywords THEN nextKwId ELSE nextKwId + 1
            /\ tickLog' = <<>>
    /\ UNCHANGED <<clockVars, channels, videos, video_tags, hidden_videos,
                   procVars, delPending, fetchVars>>

\* add channel
UserAddChannel(c, title) ==
    /\ UserStep
    /\ channels' = save_channel(channels, c, title, today)
    /\ UNCHANGED <<clockVars, keywords, nextKwId, videos, video_tags, hidden_videos,
                   procVars, delPending, tickLog, fetchVars>>

\* delete channel
UserDeleteChannel(c) ==
    /\ UserStep
    /\ channels' = delete_channel(channels, c)
    /\ UNCHANGED <<clockVars, keywords, nextKwId, videos, video_tags, hidden_videos,
                   procVars, delPending, tickLog, fetchVars>>

----------------------------------------------------------------------------
\* Specifications.

NoFetch == [script |-> <<>>, max_pages |-> NoLimit, channel_id |-> ""]
NoOutcome == [results |-> <<>>, raised |-> FALSE, trace |-> <<>>]

\* No executor runs, no command was given.
InitProcs ==
    /\ pc = [e \in Procs |-> "idle"]
    /\ selKw = [e \in Procs |-> <<>>]
    /\ selCh = [e \in Procs |-> ""]
    /\ queue = [e \in Procs |-> <<>>]
    /\ newRows = <<>>
    /\ err = [e \in Procs |-> ""]
    /\ exitCode = -1
    /\ running = FALSE
    /\ rejected = 0
    /\ delPending = <<>>
    /\ userOps = 0
    /\ tickLog = <<>>
    /\ fetchOut = NoOutcome

\* Rows written on an earlier day.
OldKeyword(i, src, u) ==
    [id |-> i, source |-> src, created_date |-> 0, updated_date |-> u]

OldChannel(u) == [title |-> <<"c", "h">>, created_date |-> 0, updated_date |-> u]

ItemV1 == CHOOSE i \in Items : i.video_id = "v1" /\ i.published_at = 1
ItemV1Changed == CHOOSE i \in Items : i.video_id = "v1" /\ i.published_at = 2

ItemV2 == CHOOSE i \in Items : i.video_id = "v2"

\* The videos table after a collection of channel c1 found v2, which no
\* sweep has moved out of NEW, and, unless st is "", a later one found v1,
\* which has status st by now.
StoredVideos(st) ==
    LET first == upsert_video(<<>>, Flatten(<<ItemV2>>, "c1")[1], 0)
        both == upsert_video(first, ItemV1, 0)
    IN IF st = "" THEN first ELSE set_watch_status(both, "v1", st, 0)

TickStep(e) ==
    \/ Seed(e)
    \/ PickKeyword(e)
    \/ FetchKeyword(e)
    \/ Upsert(e)
    \/ Tags(e)
    \/ Mark(e)
    \/ PickChannel(e)
    \/ Meta(e)
    \/ FetchChannel(e)
    \/ StoreFail(e)

CronStep ==
    \/ CronStart
    \/ CronConnectFail
    \/ TickStep("cron")
    \/ TickReturns
    \/ MainFails
    \/ MainReturns
    \/ SweepRead
    \/ SweepItem

\* The commands on videos.
VideoCommand ==
    \/ \E v \in VideoIds, st \in StatusSet : UserSetStatus(v, st)
    \/ \E v \in VideoIds : UserHide(v)
    \/ \E tag \in RawKeywords : UserHideByTag(tag)

\* The strings given to delete_keyword: the keywords as typed, the seed
\* keyword, and a string of whitespace.
DeleteInputs == RawKeywords \cup {SeedKeyword, <<" ">>}

UserCommand ==
    \/ VideoCommand
    \/ \E k \in DeleteInputs : UserDeleteKeywordHide(k)
    \/ UserDeleteKeywordRow
    \/ \E raw \in RawKeywords : UserAddKeyword(raw)
    \/ \E c \in ChannelIds, t \in ChannelTitles : UserAddChannel(c, t)
    \/ \E c \in ChannelIds : UserDeleteChannel(c)

\* The store with its users: one cron invocation at time 1, with the
\* classifier enabled, and the commands on videos, on a store that at time 0
\* holds a due keyword, a due channel, a video that is NEW and possibly a
\* video which the platform now serves with changed metadata.
Init ==
    /\ today = 1
    /\ now = 1
    /\ keywords = (SeedKeyword :> OldKeyword(1, "seed", 0))
    /\ nextKwId = 2
    /\ channels = ("c1" :> OldChannel(0))
    /\ \E st \in {"", "NEW", "WATCHED"} : videos = StoredVideos(st)
    /\ video_tags = save_tags(<<>>, "v2", <<KwGo>>, 0)
    /\ hidden_videos = {}
    /\ catalog = [items |-> {ItemV1, ItemV1Changed},
                  tags |-> {<<>>, <<<<"A", "i">>, <<" ", "a", "i", " ">>>>},
                  titles |-> {<<"n", "e", "w">>}]
    /\ ai = CHOOSE c \in AiConfigs : c.enabled /\ c.key
    /\ runs = MaxRuns - 1
    /\ InitProcs
    /\ fetchIn = NoFetch

Next ==
    \/ CronStep
    \/ VideoCommand

Spec == Init /\ [][Next]_vars

\* The rotation of one day: cron invocations, one after the other, on a
\* store whose keywords and channels were registered on earlier days.
InitRotation ==
    /\ today = 2
    /\ now = 0
    /\ \E u1, u2, u3 \in 0..1 :
         keywords = (SeedKeyword :> OldKeyword(1, "seed", u1))
                    @@ (KwAi :> OldKeyword(2, "manual", u2))
                    @@ (KwGo :> OldKeyword(3, "manual", u3))
    /\ nextKwId = 4
    /\ channels = ("c1" :> OldChannel(1)) @@ ("c2" :> OldChannel(0))
    /\ videos = <<>>
    /\ video_tags = <<>>
    /\ hidden_videos = {}
    /\ catalog = [items |-> {ItemV1}, tags |-> {<<>>}, titles |-> {}]
    /\ ai = NoAi
    /\ runs = 0
    /\ InitProcs
    /\ fetchIn = NoFetch

NextRotation == CronStep

SpecRotation == InitRotation /\ [][NextRotation]_vars

\* The keyword schedule: one cron invocation on day 2 over any keywords table
\* of earlier days, the seed keyword absent or present, each keyword
\* collected last on day 0, 1 or 2.
InitSchedule ==
    /\ today = 2
    /\ now = 0
    /\ \E present \in SUBSET {SeedKeyword, KwAi, KwGo} :
         \E u \in [present -> 0..2] :
            keywords = [k \in present |->
                          OldKeyword(IF k = SeedKeyword THEN 1
                                     ELSE IF k = KwAi THEN 2 ELSE 3,
                                     IF k = SeedKeyword THEN "seed" ELSE "manual",
                                     u[k])]
    /\ nextKwId = 4
    /\ channels = ("c1" :> OldChannel(0))
    /\ videos = <<>>
    /\ video_tags = <<>>
    /\ hidden_videos = {}
    /\ catalog = [items |-> {ItemV1}, tags |-> {<<>>}, titles |-> {}]
    /\ ai = NoAi
    /\ runs = MaxRuns - 1
    /\ InitProcs
    /\ fetchIn = NoFetch

NextSchedule == CronStep

SpecSchedule == InitSchedule /\ [][NextSchedule]_vars

\* The commands that write updated_date: add keyword, add channel.
ScheduleCommand ==
    \/ \E raw \in RawKeywords : UserAddKeyword(raw)
    \/ \E c \in ChannelIds, t \in ChannelTitles : UserAddChannel(c, t)

\* The writers of updated_date on day 2: one cron invocation, with or
\* without --reset-due, and the add commands, on keywords and a channel
\* that were collected on day 0 or already on day 2, or on a keywords table
\* left empty.
InitDates ==
    /\ today = 2
    /\ now = 0
    /\ \/ keywords = <<>>
       \/ \E u1, u2 \in {0, 2} :
            keywords = (SeedKeyword :> OldKeyword(1, "seed", u1))
                       @@ (KwGo :> OldKeyword(2, "manual", u2))
    /\ nextKwId = 3
    /\ \E u \in {0, 2} : channels = ("c1" :> OldChannel(u))
    /\ videos = <<>>
    /\ video_tags = <<>>
    /\ hidden_videos = {}
    /\ catalog = [items |-> {ItemV1}, tags |-> {<<>>}, titles |-> {}]
    /\ ai = NoAi
    /\ runs = MaxRuns - 1
    /\ InitProcs
    /\ fetchIn = NoFetch

NextDates == CronStep \/ ScheduleCommand

SpecDates == InitDates /\ [][NextDates]_vars

\* The videos table with v2 in status st2 as well.
StoredPair(st1, st2) ==
    IF st2 = "NEW" THEN StoredVideos(st1)
    ELSE set_watch_status(StoredVideos(st1), "v2", st2, 0)

\* The presentation layer on a store left by earlier collections and
\* commands: any statuses, tags and hidden set, then the user's commands.
InitList ==
    /\ today = 1
    /\ now = 0
    /\ keywords = (SeedKeyword :> OldKeyword(1, "seed", 0))
    /\ nextKwId = 2
    /\ channels = ("c1" :> OldChannel(0))
    /\ \E st1 \in {""} \cup StatusSet, st2 \in StatusSet :
         videos = StoredPair(st1, st2)
    /\ \E tl1, tl2 \in TagLists :
         video_tags = save_tags(IF "v1" \in DOMAIN videos
                                THEN save_tags(<<>>, "v1", tl1, 0) ELSE <<>>,
                                "v2", tl2, 0)
    /\ hidden_videos \in SUBSET VideoIds
    /\ catalog = [items |-> {}, tags |-> {}, titles |-> {}]
    /\ ai = NoAi
    /\ runs = 0
    /\ InitProcs
    /\ fetchIn = NoFetch

\* The commands that change what a listing returns: those on videos and
\* delete_keyword, which hides the keyword's videos.
NextList ==
    \/ VideoCommand
    \/ \E k \in DeleteInputs : UserDeleteKeywordHide(k)
    \/ UserDeleteKeywordRow

SpecList == InitList /\ [][NextList]_vars

\* One cron invocation on an empty videos table, the keyword and the
\* channel each due or collected today, the platform serving two videos
\* and an item without video id over any pages and, per video, no tags or a
\* list of tags.
InitCollect ==
    /\ today = 1
    /\ now = 0
    /\ \E u \in 0..1 : keywords = (SeedKeyword :> OldKeyword(1, "seed", u))
    /\ nextKwId = 2
    /\ \E u \in 0..1 : channels = ("c1" :> OldChannel(u))
    /\ videos = <<>>
    /\ video_tags = <<>>
    /\ hidden_videos = {}
    /\ catalog = [items |-> Items \ {ItemV1Changed},
                  tags |-> {<<>>, <<<<"A", "i">>, <<" ", "a", "i", " ">>>>},
                  titles |-> {}]
    /\ ai = CHOOSE c \in AiConfigs : c.enabled /\ c.key
    /\ runs = MaxRuns - 1
    /\ InitProcs
    /\ fetchIn = NoFetch

NextCollect == CronStep

SpecCollect == InitCollect /\ [][NextCollect]_vars

\* Two cron invocations, one after the other, at time 1 under any
\* configuration of the classifier, on a store that holds v2 and v1 as NEW
\* since time 0, v2 hidden or not; the user may mark a video as watched
\* meanwhile.
InitSweep ==
    /\ today = 1
    /\ now = 1
    /\ keywords = (SeedKeyword :> OldKeyword(1, "seed", 0))
    /\ nextKwId = 2
    /\ channels = ("c1" :> OldChannel(0))
    /\ videos = StoredVideos("NEW")
    /\ video_tags = <<>>
    /\ hidden_videos \in {{}, {"v2"}}
    /\ catalog = [items |-> {ItemV1}, tags |-> {<<>>}, titles |-> {}]
    /\ ai \in AiConfigs \cup {NoAi}
    /\ runs = MaxRuns - 2
    /\ InitProcs
    /\ fetchIn = NoFetch

NextSweep ==
    \/ CronStep
    \/ \E v \in VideoIds : UserSetStatus(v, "WATCHED")

SpecSweep == InitSweep /\ [][NextSweep]_vars

\* The commands that hide videos and the command that moves one.
HideCommand ==
    \/ \E v \in VideoIds : UserHide(v)
    \/ \E tag \in RawKeywords : UserHideByTag(tag)
    \/ \E k \in {SeedKeyword, <<"A", "i">>} : UserDeleteKeywordHide(k)
    \/ UserDeleteKeywordRow
    \/ UserAddKeyword(<<"A", "i">>)
    \/ \E v \in VideoIds : UserSetStatus(v, "WATCHING")

\* One cron invocation at time 1 on a store that holds the due keyword "it",
\* the keyword "ai" added today, a due channel and video v2 with a tag, the
\* platform serving v1 with or without tags, while the user hides videos,
\* deletes and adds keywords and opens videos.
InitHide ==
    /\ today = 1
    /\ now = 1
    /\ keywords = (SeedKeyword :> OldKeyword(1, "seed", 0))
                   @@ (KwAi :> OldKeyword(2, "manual", 1))
    /\ nextKwId = 3
    /\ channels = ("c1" :> OldChannel(0))
    /\ videos = StoredVideos("")
    /\ video_tags = save_tags(<<>>, "v2", <<KwGo>>, 0)
    /\ hidden_videos = {}
    /\ catalog = [items |-> {ItemV1},
                  tags |-> {<<>>, <<<<"A", "i">>, <<" ", "a", "i", " ">>>>},
                  titles |-> {}]
    /\ ai = CHOOSE c \in AiConfigs : c.enabled /\ c.key
    /\ runs = MaxRuns - 1
    /\ InitProcs
    /\ fetchIn = NoFetch

NextHide == CronStep \/ HideCommand

SpecHide == InitHide /\ [][NextHide]_vars

\* The keyword commands and the commands that hide or move a video.
DeleteCommand ==
    \/ \E k \in DeleteInputs : UserDeleteKeywordHide(k)
    \/ UserDeleteKeywordRow
    \/ \E raw \in RawKeywords : UserAddKeyword(raw)
    \/ \E v \in VideoIds : UserHide(v)
    \/ \E v \in VideoIds : UserSetStatus(v, "WATCHED")

\* Deleting keywords on a store of two visible videos with any tags.
InitDelete ==
    /\ today = 1
    /\ now = 0
    /\ keywords = (SeedKeyword :> OldKeyword(1, "seed", 0))
    /\ nextKwId = 2
    /\ channels = ("c1" :> OldChannel(0))
    /\ videos = StoredVideos("NEW")
    /\ \E tl1, tl2 \in TagLists :
         video_tags = save_tags(save_tags(<<>>, "v1", tl1, 0), "v2", tl2, 0)
    /\ hidden_videos = {}
    /\ catalog = [items |-> {}, tags |-> {}, titles |-> {}]
    /\ ai = NoAi
    /\ runs = 0
    /\ InitProcs
    /\ fetchIn = NoFetch

NextDelete == DeleteCommand

SpecDelete == InitDelete /\ [][NextDelete]_vars

\* A tag of 256 characters: 255 times "a", then c.
LongTag(c) == [i \in 1..(TagColumn + 1) |-> IF i <= TagColumn THEN "a" ELSE c]

\* The tag lists given to save_tags: capitals and blanks, variants of one
\* tag, tags shorter than two characters and blank ones, tags longer than
\* the column.
TagInputs ==
    { <<<<"P", "y", "t", "h", "o", "n">>, <<" ", " ", "A", "I", " ">>>>,
      <<<<"a", "i">>, <<" ", "A", "i", " ">>, <<"a">>, <<" ", "a", " ">>, <<" ", " ">>>>,
      <<LongTag("b"), LongTag("c")>> }

\* save_tags(video_id, tags), called on the store
CallSaveTags(v, tags) ==
    /\ video_tags' = save_tags(video_tags, v, tags, today)
    /\ UNCHANGED <<clockVars, keywords, nextKwId, channels, videos, hidden_videos,
                   procVars, userVars, tickLog, fetchVars>>

\* midnight: dt.date.today() and CURDATE() return the next day
NextDay ==
    /\ today < MaxDay
    /\ today' = today + 1
    /\ UNCHANGED <<now, catalog, storeVars, procVars, userVars, tickLog, fetchVars>>

\* save_tags on a store that holds two videos and no tag yet, called any
\* number of times on day 1 and on later days.
InitTags ==
    /\ today = 1
    /\ now = 0
    /\ keywords = (SeedKeyword :> OldKeyword(1, "seed", 0))
    /\ nextKwId = 2
    /\ channels = ("c1" :> OldChannel(0))
    /\ videos = StoredVideos("NEW")
    /\ video_tags = <<>>
    /\ hidden_videos = {}
    /\ catalog = [items |-> {}, tags |-> {}, titles |-> {}]
    /\ ai = NoAi
    /\ runs = 0
    /\ InitProcs
    /\ fetchIn = NoFetch

NextTags ==
    \/ \E v \in VideoIds, tags \in TagInputs : CallSaveTags(v, tags)
    \/ NextDay

SpecTags == InitTags /\ [][NextTags]_vars

\* The web process: triggers arrive at its threads while the store holds a
\* due keyword and a due channel.
InitGuard ==
    /\ today = 1
    /\ now = 0
    /\ keywords = (SeedKeyword :> OldKeyword(1, "seed", 0))
    /\ nextKwId = 2
    /\ channels = ("c1" :> OldChannel(0))
    /\ videos = <<>>
    /\ video_tags = <<>>
    /\ hidden_videos = {}
    /\ catalog = [items |-> {ItemV1}, tags |-> {<<>>}, titles |-> {<<"n", "e", "w">>}]
    /\ ai = NoAi
    /\ runs = 0
    /\ InitProcs
    /\ fetchIn = NoFetch

NextGuard ==
    \E t \in Web :
        \/ WebTrigger(t)
        \/ TickStep(t)
        \/ WebRelease(t)

SpecGuard == InitGuard /\ [][NextGuard]_vars

\* The arguments of one fetcher call.
FetchArgs ==
    [script : ScriptsOf(Items),
     max_pages : {NoLimit} \cup (1..MaxPages),
     channel_id : {""} \cup ChannelIds]

\* search_latest_paginated(keyword, max_pages=...) is called
CallSearch ==
    /\ fetchIn.channel_id = ""
    /\ fetchOut = NoOutcome
    /\ fetchOut' = search_latest_paginated(fetchIn.script, fetchIn.max_pages)
    /\ UNCHANGED <<clockVars, storeVars, procVars, userVars, tickLog, catalog, fetchIn>>

\* channel_latest_paginated(channel_id, max_pages=...) is called
CallChannel ==
    /\ fetchIn.channel_id # ""
    /\ fetchOut = NoOutcome
    /\ fetchOut' = channel_latest_paginated(fetchIn.channel_id, fetchIn.script,
                                            fetchIn.max_pages)
    /\ UNCHANGED <<clockVars, storeVars, procVars, userVars, tickLog, catalog, fetchIn>>

\* One call of a fetcher, on any conversation of the API.
InitFetch ==
    /\ today = 1
    /\ now = 0
    /\ keywords = <<>>
    /\ nextKwId = 1
    /\ channels = <<>>
    /\ videos = <<>>
    /\ video_tags = <<>>
    /\ hidden_videos = {}
    /\ catalog = [items |-> Items, tags |-> {}, titles |-> {}]
    /\ ai = NoAi
    /\ runs = 0
    /\ InitProcs
    /\ fetchIn \in FetchArgs

NextFetch == CallSearch \/ CallChannel

SpecFetch == InitFetch /\ [][NextFetch]_vars

\* The arguments of one call of extract: titles and descriptions with
\* capitals, digits, signs, Hangul, stop words and single characters, under
\* every configuration and provider outcome.
ExtractArgs ==
    [title : {<<"G", "o", " ", "1", ".", "2", "2", " ", "N", "e", "w", "s">>,
              <<"c", "+", "+", " ", "A", "I">>,
              <<"yeong", "sang", " ", "A", "I", " ", "g", "o">>,
              <<"a", " ", "b">>},
     description : {<<>>,
                    <<"a", "i", " ", "g", "o", " ", "c", "#", " ", "j", "s", " ", "p", "y", " ", "k", "8", "s">>,
                    <<"t", "o", "d", "a", "y", " ", "g", "o", ".", ".", "g", "o", " ", "s", "h", "o", "r", "t", "s">>,
                    <<"chae", "neol", " ", "x">>},
     ai : AiConfigs \cup {NoAi},
     resp : ExtractResponses]

\* tci_ai.extract(title, description) is called
CallExtract ==
    /\ fetchOut = NoOutcome
    /\ fetchOut' = extract(fetchIn.ai, fetchIn.resp, fetchIn.title, fetchIn.description)
    /\ UNCHANGED <<clockVars, storeVars, procVars, userVars, tickLog, catalog, fetchIn>>

\* One call of extract.
InitExtract ==
    /\ today = 1
    /\ now = 0
    /\ keywords = <<>>
    /\ nextKwId = 1
    /\ channels = <<>>
    /\ videos = <<>>
    /\ video_tags = <<>>
    /\ hidden_videos = {}
    /\ catalog = [items |-> {}, tags |-> {}, titles |-> {}]
    /\ ai = NoAi
    /\ runs = 0
    /\ InitProcs
    /\ fetchIn \in ExtractArgs

SpecExtract == InitExtract /\ [][CallExtract]_vars

----
\* Rotation claims.

KeyLess(a, b) ==
    \/ a.updated_date < b.updated_date
    \/ a.updated_date = b.updated_date /\ a.id < b.id

\* C1: from a store whose N keywords are all due, consecutive ticks of one
\* day select every keyword at most once, in ascending (updated_date, id)
\* order, whatever each fetch yields; once N ticks have selected N keywords
\* every keyword has updated_date = today.  (Ticks in which the store itself
\* failed are not covered.)
C1_RotationFair ==
    /\ \A i, j \in 1..Len(tickLog) :
          i < j /\ ~tickLog[i].store =>
              /\ tickLog[i].kw # tickLog[j].kw
              /\ KeyLess(tickLog[i], tickLog[j])
    /\ ( /\ Len(tickLog) = Cardinality(DOMAIN keywords)
         /\ \A i \in 1..Len(tickLog) : ~tickLog[i].store
         /\ pc["cron"] \in {"idle", "done"} )
       => \A k \in DOMAIN keywords : keywords[k].updated_date = today

\* The keyword half of executor e ends in this step, by returning or by an
\* exception that is no failure of the store.
KeywordHalfEnds(e) ==
    /\ selKw[e] # <<>>
    /\ ~InChannelHalf(e)
    /\ pc[e] \in {"fetch_kw", "upsert", "tags", "mark"}
    /\ pc'[e] \in {"pick_ch", "raised"}
    /\ err'[e] # "store"

\* The channel half of executor e ends in this step, likewise.
ChannelHalfEnds(e) ==
    /\ InChannelHalf(e)
    /\ pc[e] \in {"meta", "fetch_ch", "upsert", "tags", "mark"}
    /\ pc'[e] \in {"end", "raised"}
    /\ err'[e] # "store"

\* C2: whenever a tick selected a due keyword or channel, the entity has
\* updated_date = today when the tick's half for it ends, also when the fetch
\* retrieved nothing or its request failed.
C2_MarkUnconditional ==
    [][\A e \in Procs :
          /\ KeywordHalfEnds(e) =>
                /\ selKw[e] \in DOMAIN keywords'
                /\ keywords'[selKw[e]].updated_date = today'
          /\ ChannelHalfEnds(e) =>
                /\ selCh[e] \in DOMAIN channels'
                /\ channels'[selCh[e]].updated_date = today']_vars

\* C3: a keyword whose fetch failed is not selected again by a later tick of
\* the same day, so the ticks that follow select the other due keywords.
C3_FailedNotReselected ==
    \A i, j \in 1..Len(tickLog) :
        i < j /\ tickLog[i].failed /\ ~tickLog[i].store =>
            tickLog[i].kw # tickLog[j].kw

----
\* Claims on the videos table.

\* C4: upsert_video on a stored video id leaves the number of rows and the
\* row's status, watch_updated_at and channel_id (and id) as they were and
\* overwrites title, description, published_at and last_seen_at; on a video
\* id not stored it adds exactly one row, with status NEW.  No other row
\* changes.
C4_UpsertIdempotent ==
    [][\A e \in Procs : Upsert(e) =>
          LET p == Head(queue[e])
              v == p.video_id
          IN /\ \A o \in DOMAIN videos \ {v} :
                    o \in DOMAIN videos' /\ videos'[o] = videos[o]
             /\ DOMAIN videos' = DOMAIN videos \cup {v}
             /\ videos'[v].title = p.title
             /\ videos'[v].description = p.description
             /\ videos'[v].published_at = p.published_at
             /\ videos'[v].last_seen_at = now
             /\ IF v \in DOMAIN videos
                THEN /\ Cardinality(DOMAIN videos') = Cardinality(DOMAIN videos)
                     /\ videos'[v].status = videos[v].status
                     /\ videos'[v].watch_updated_at = videos[v].watch_updated_at
                     /\ videos'[v].channel_id = videos[v].channel_id
                     /\ videos'[v].id = videos[v].id
                ELSE /\ Cardinality(DOMAIN videos') = Cardinality(DOMAIN videos) + 1
                     /\ videos'[v].status = "NEW"
                     /\ videos'[v].channel_id = p.channel_id]_vars

\* A tick inserted v1 at time 1 from the payload of channel c1 and then
\* upserted the payload of channel c2 over it.
C4_Witness ==
    /\ pc["cron"] = "tags"
    /\ userOps = 0
    /\ queue["cron"] = <<ItemV1Changed>>
    /\ "v1" \in DOMAIN videos
    /\ videos["v1"].watch_updated_at = 1
    /\ videos["v1"].channel_id = ItemV1.channel_id
    /\ videos["v1"].title = ItemV1Changed.title
    /\ videos["v1"].status = "NEW"

\* C5: the status and watch_updated_at of a stored video change only in a
\* set_watch_status step of a user command or of the sweep, and no step
\* removes a video; a WATCHED video that is collected again keeps WATCHED
\* and gets the description of the new payload.
C5_StatusOwned ==
    [][\A v \in DOMAIN videos :
          /\ v \in DOMAIN videos'
          /\ ( \/ videos'[v].status # videos[v].status
               \/ videos'[v].watch_updated_at # videos[v].watch_updated_at )
             => \/ \E st \in StatusSet : UserSetStatus(v, st)
                \/ SweepItem
          /\ \A e \in Procs :
                ( /\ Upsert(e)
                  /\ Head(queue[e]).video_id = v
                  /\ videos[v].status = "WATCHED" )
                => /\ videos'[v].status = "WATCHED"
                   /\ videos'[v].description = Head(queue[e]).description]_vars

\* v1, WATCHED since time 0, was collected again at time 1 with the changed
\* description.
C5_Witness ==
    /\ userOps = 0
    /\ pc["cron"] \in TickPcs
    /\ "v1" \in DOMAIN videos
    /\ videos["v1"].status = "WATCHED"
    /\ videos["v1"].watch_updated_at = 0
    /\ videos["v1"].last_seen_at = 1
    /\ videos["v1"].description = ItemV1Changed.description
    /\ videos["v1"].description # ItemV1.description

\* The videos table without the rows whose video id is hidden.
Visible == [v \in DOMAIN videos \ hidden_videos |-> videos[v]]

\* Windows (limit, offset) of a listing; NoLimit is "not given".
Windows == {<<NoLimit, NoLimit>>, <<1, 0>>, <<1, 1>>, <<2, 0>>, <<1, NoLimit>>}

\* C6: for every query, status filter and window, list_videos returns no
\* video id of hidden_videos, and list_videos_count counts what it would
\* count on the table without the hidden rows.
C6_HiddenExcluded ==
    \A q \in Queries, s \in StatusFilters :
        /\ \A w \in Windows :
              LET rows == list_videos(videos, video_tags, hidden_videos, q, s, w[1], w[2])
              IN \A i \in 1..Len(rows) : rows[i] \notin hidden_videos
        /\ list_videos_count(videos, video_tags, hidden_videos, q, s)
              = list_videos_count(Visible, video_tags, {}, q, s)

\* delete_keyword(" go") has just hidden v2, which the query "Go" matches,
\* and v1 is still listed.
C6_Witness ==
    /\ userOps = 1
    /\ delPending = <<KwGo>>
    /\ hidden_videos = {"v2"}
    /\ DOMAIN videos = {"v1", "v2"}
    /\ TitleOrTagLike(videos, video_tags, "v2", <<"G", "o">>)
    /\ list_videos(videos, video_tags, hidden_videos, <<>>, "", NoLimit, NoLimit) = <<"v1">>
    /\ list_videos_count(videos, video_tags, {}, <<>>, "") = 2

----
\* Claims on the classification sweep.

\* The sweep returns in this step.
SweepEnds == pc["cron"] \in SweepPcs /\ pc'["cron"] = "sweep_done"

\* C7 as stated: every video of the list the sweep read whose classification
\* failed (the call threw, the text was no JSON, the JSON had no "technical")
\* has status UNWATCHED when the sweep returns.
C7_UnwatchedAtSweepEnd ==
    [][SweepEnds =>
          \A i \in 1..Len(newRows') :
              newRows'[i].response \in ClassifyFailures =>
                  videos'[newRows'[i].video_id].status = "UNWATCHED"]_vars

\* C7: with classification enabled, classify_technical is true on each of
\* the three failures, and the sweep's step for a video whose classification
\* failed writes status UNWATCHED; from then until the sweep returns only a
\* user's set_watch_status on that video changes the status.
C7_FailOpenWrites ==
    [][/\ \A cfg \in AiConfigs, r \in ClassifyFailures :
             cfg.enabled => classify_technical(cfg, r)
       /\ SweepItem =>
             LET i == SweepIndex
                 v == newRows[i].video_id
             IN newRows'[i].response \in ClassifyFailures =>
                    /\ videos'[v].status = "UNWATCHED"
                    /\ videos'[v].watch_updated_at = now
       /\ \A i \in 1..Len(newRows) :
             LET v == newRows[i].video_id IN
             ( /\ pc["cron"] \in SweepPcs
               /\ newRows[i].response \in ClassifyFailures
               /\ videos[v].status = "UNWATCHED"
               /\ videos'[v].status # "UNWATCHED" )
             => \E st \in StatusSet : UserSetStatus(v, st)]_vars

\* A sweep over two NEW videos has returned; one call threw, the other
\* answered with text that is no JSON; both videos are UNWATCHED.
C7_Witness ==
    /\ pc["cron"] = "sweep_done"
    /\ userOps = 0
    /\ Len(newRows) = 2
    /\ newRows[1].response = "throws"
    /\ newRows[2].response = "not_json"
    /\ \A i \in 1..2 : videos[newRows[i].video_id].status = "UNWATCHED"

\* C8: a step of the sweep leaves a video alone whose status is not NEW
\* when the step writes, whatever commands ran since the sweep read its list.
C8_SweepOnlyFromNew ==
    [][SweepItem =>
          LET v == newRows[SweepIndex].video_id IN
          videos[v].status # "NEW" => videos'[v] = videos[v]]_vars

----
\* Claims on the trigger of the web process.

\* The threads of the web process that execute a tick.
InTick == {t \in Web : pc[t] # "idle"}

\* C9: at most one thread of the process executes a tick; a tick starts
\* only in the step of a trigger that found no tick in progress; a trigger
\* that finds one in progress changes nothing but the count of rejected
\* triggers, so nothing is left behind that could start a tick later.
C9_OneTickAtATime ==
    [][/\ Cardinality(InTick) <= 1
       /\ Cardinality({t \in Web : pc'[t] # "idle"}) <= 1
       /\ \A t \in Web :
             /\ (pc[t] = "idle" /\ pc'[t] # "idle")
                   => WebTrigger(t) /\ InTick = {} /\ ~running
             /\ (WebTrigger(t) /\ InTick # {})
                   => UNCHANGED <<pc, selKw, selCh, queue, err, running,
                                  storeVars, clockVars, userVars>>]_vars

\* Both threads were turned away once while a tick, now finished, was in
\* progress, and the tick has been released: no tick runs.
C9_Witness ==
    /\ rejected = 2
    /\ ~running
    /\ InTick = {}
    /\ keywords[SeedKeyword].updated_date = today

----
\* Claims on the fetcher.

\* The pages a call reads without failure: up to the first failed request,
\* the last page of the conversation, or max_pages.
RECURSIVE PagesBeforeFailure(_, _, _)
PagesBeforeFailure(script, max_pages, n) ==
    IF \/ n >= Len(script)
       \/ max_pages # NoLimit /\ n >= max_pages
       \/ script[n + 1].kind # "ok"
    THEN n
    ELSE PagesBeforeFailure(script, max_pages, n + 1)

RECURSIVE ItemsOfPages(_, _, _)
ItemsOfPages(script, n, default_channel) ==
    IF n = 0 THEN <<>>
    ELSE ItemsOfPages(script, n - 1, default_channel)
         \o Flatten(script[n].items, default_channel)

\* C10: a call of search_latest_paginated or channel_latest_paginated does
\* not raise, and returns the items of the pages before the first failed
\* request, in order, whatever made the request fail.
C10_FetcherFailOpen ==
    fetchOut # NoOutcome =>
        /\ ~fetchOut.raised
        /\ fetchOut.results =
              ItemsOfPages(fetchIn.script,
                           PagesBeforeFailure(fetchIn.script, fetchIn.max_pages, 0),
                           fetchIn.channel_id)

----
\* Claims on the scheduled entry point.

\* C11: the sweep is not gated by the tick: when the tick of an invocation
\* ends, by returning or by a failure of one of its halves while the store
\* is reachable, the invocation goes on to the sweep over the NEW videos.
C11_SweepNotGated ==
    [][( /\ pc["cron"] \in TickPcs
         /\ pc'["cron"] \notin TickPcs
         /\ err'["cron"] # "store" )
       => pc'["cron"] = "sweep_read"]_vars

\* The entity executor e is collecting: a keyword, a channel, or none.
Collecting(e) ==
    IF InChannelHalf(e) THEN [kind |-> "channel", key |-> selCh[e]]
    ELSE IF selKw[e] # <<>> /\ pc[e] \in {"fetch_kw", "upsert", "tags", "mark"}
    THEN [kind |-> "keyword", key |-> selKw[e]]
    ELSE [kind |-> "none", key |-> ""]

\* C12: a failure inside a tick (the store unreachable at upsert_video,
\* save_tags or any other statement) leaves the tick as an exception and
\* writes nothing: the entity being collected keeps its updated_date and is
\* still due; nothing is written until main returns, and main returns 1.
C12_FailurePropagates ==
    [][/\ \A e \in Procs :
             (pc[e] \in TickPcs /\ StoreFail(e)) =>
                 /\ pc'[e] = "raised"
                 /\ UNCHANGED storeVars
                 /\ LET c == Collecting(e) IN
                    /\ c.kind = "keyword" =>
                          keywords'[c.key].updated_date < today
                    /\ c.kind = "channel" =>
                          channels'[c.key].updated_date < today
       /\ pc["cron"] = "raised" =>
             /\ UNCHANGED <<keywords, nextKwId, channels>>
             /\ pc'["cron"] # "raised" => pc'["cron"] = "done" /\ exitCode' = 1]_vars

\* The store failed in the loop of the keyword half, after v1 was upserted
\* at time 1: the exception is on its way to main and "it" is still due.
C12_Witness ==
    /\ pc["cron"] = "raised"
    /\ err["cron"] = "store"
    /\ selKw["cron"] = SeedKeyword
    /\ ~InChannelHalf("cron")
    /\ queue["cron"] # <<>>
    /\ "v1" \in DOMAIN videos
    /\ videos["v1"].last_seen_at = 1
    /\ keywords[SeedKeyword].updated_date < today

----
\* Claims on the keyword schedule.

\* The rows of tbl other than k are the rows of old.
OthersKept(old, tbl, k) ==
    /\ DOMAIN tbl = DOMAIN old \cup {k}
    /\ \A o \in DOMAIN old \ {k} : tbl[o] = old[o]

\* C13: ensure_seed(k) on a store that holds k changes nothing (updated_date,
\* created_date and source stay, no row is added); on a store without k it
\* adds the one row k with source 'seed' and updated_date = today - 1, which
\* is due.  For the call of the tick and for any other keyword.
C13_EnsureSeed ==
    [][/\ \A k \in {SeedKeyword} \cup RawKeywords :
             LET after == ensure_seed(keywords, nextKwId, k, today) IN
             IF Lower(k) \in DOMAIN keywords
             THEN after = keywords
             ELSE /\ OthersKept(keywords, after, Lower(k))
                  /\ after[Lower(k)].source = "seed"
                  /\ after[Lower(k)].updated_date = today - 1
                  /\ after[Lower(k)].updated_date < today
       /\ \A e \in Procs :
             Seed(e) =>
                 IF SeedKeyword \in DOMAIN keywords
                 THEN keywords' = keywords /\ nextKwId' = nextKwId
                 ELSE /\ OthersKept(keywords, keywords', SeedKeyword)
                      /\ keywords'[SeedKeyword].source = "seed"
                      /\ keywords'[SeedKeyword].updated_date = today - 1
                      /\ SeedKeyword \in
                            {k \in DOMAIN keywords' : keywords'[k].updated_date < today}]_vars

\* The tick inserted the seed keyword, after the two manual keywords, and
\* selected it.
C13_Witness ==
    /\ pc["cron"] = "fetch_kw"
    /\ selKw["cron"] = SeedKeyword
    /\ keywords[SeedKeyword].id = 4
    /\ keywords[SeedKeyword].source = "seed"
    /\ keywords[SeedKeyword].updated_date = today - 1
    /\ {KwAi, KwGo} \subseteq DOMAIN keywords

\* The keywords that are due.
DueKeywords == {k \in DOMAIN keywords : keywords[k].updated_date < today}

\* C14: get_one_keyword_due_for_collect returns none exactly when no keyword
\* is due; otherwise it returns one due keyword, the one with the smallest
\* updated_date and among those the smallest id; never a keyword whose
\* updated_date is today or later.
C14_OldestDueKeyword ==
    [][\A e \in Procs :
          PickKeyword(e) =>
              /\ (selKw'[e] = <<>>) <=> (DueKeywords = {})
              /\ selKw'[e] # <<>> =>
                    /\ selKw'[e] \in DueKeywords
                    /\ keywords[selKw'[e]].updated_date < today
                    /\ \A o \in DueKeywords \ {selKw'[e]} :
                          KeyLess(keywords[selKw'[e]], keywords[o])]_vars

\* "ai" is selected: it is as old as "go" and has the smaller id, and it is
\* older than "it", which has the smallest id of the three.
C14_Witness ==
    /\ pc["cron"] = "fetch_kw"
    /\ selKw["cron"] = KwAi
    /\ {SeedKeyword, KwAi, KwGo} \subseteq DOMAIN keywords
    /\ keywords[SeedKeyword].updated_date = 1
    /\ keywords[KwAi].updated_date = 0
    /\ keywords[KwGo].updated_date = 0

\* The channels that are due.
DueChannels == {c \in DOMAIN channels : channels[c].updated_date < today}

\* Channel a comes before channel b in the rotation: collected earlier, or
\* collected on the same day and registered earlier.
ChannelBefore(a, b) ==
    \/ a.updated_date < b.updated_date
    \/ a.updated_date = b.updated_date /\ a.created_date < b.created_date

\* C15: get_one_channel_due_for_collect returns none exactly when no channel
\* is due; otherwise the one due channel that comes before every other due
\* channel (smallest updated_date, then registered first), and the result
\* is determined by the table, also for channels registered on one day.
C15_OldestDueChannel ==
    [][\A e \in Procs :
          PickChannel(e) =>
              /\ (pc'[e] = "end") <=> (DueChannels = {})
              /\ pc'[e] # "end" =>
                    /\ selCh'[e] \in DueChannels
                    /\ \A o \in DueChannels \ {selCh'[e]} :
                          ChannelBefore(channels[selCh'[e]], channels[o])
              /\ Cardinality(get_one_channel_due_for_collect(channels, today)) <= 1]_vars

\* C16: no step of the program (ensure_seed, the marks of a tick, the
\* commands, the --reset-due block of main) lowers the updated_date of a
\* keyword or of a channel.
C16_UpdatedDateMonotone ==
    [][/\ \A k \in DOMAIN keywords \cap DOMAIN keywords' :
             keywords'[k].updated_date >= keywords[k].updated_date
       /\ \A c \in DOMAIN channels \cap DOMAIN channels' :
             channels'[c].updated_date >= channels[c].updated_date]_vars

\* The step lowers no updated_date.
DatesKept ==
    /\ \A k \in DOMAIN keywords \cap DOMAIN keywords' :
          keywords'[k].updated_date >= keywords[k].updated_date
    /\ \A c \in DOMAIN channels \cap DOMAIN channels' :
          channels'[c].updated_date >= channels[c].updated_date

\* C16, without --reset-due: ensure_seed, add keyword, add channel, the
\* marks and every other step of a tick or sweep lower no updated_date; the
\* start of main either leaves the dates alone or, with --reset-due, sets
\* every updated_date to today - 1, lowering the rows collected today.
C16_MonotoneButReset ==
    [][IF CronStart
       THEN \/ keywords' = keywords /\ channels' = channels
            \/ /\ keywords' = ResetDue(keywords, today)
               /\ channels' = ResetDue(channels, today)
               /\ \A k \in DOMAIN keywords :
                     keywords'[k].updated_date < keywords[k].updated_date
                         <=> keywords[k].updated_date >= today
       ELSE DatesKept]_vars

\* The invocation marked "it" and c1, and the user added "ai" and c2.
C16_Witness ==
    /\ pc["cron"] = "done"
    /\ exitCode = 0
    /\ keywords[SeedKeyword].updated_date = today
    /\ channels["c1"].updated_date = today
    /\ KwAi \in DOMAIN keywords
    /\ keywords[KwAi].updated_date = today
    /\ "c2" \in DOMAIN channels

----
\* Claims on hiding by keyword.

\* The videos whose title or one of whose tags contains k, as typed or
\* in its stored form.
Containing(k) ==
    {v \in DOMAIN videos :
        \/ TitleOrTagLike(videos, video_tags, v, k)
        \/ TitleOrTagLike(videos, video_tags, v, Lower(Strip(k)))}

\* C17: delete_keyword(k) first hides every video whose title or any tag
\* contains k, the keyword row still being there, and then removes the row
\* of k and no other; no step takes a video out of the hidden set, and no
\* list_videos, whatever its query and status filter, returns a hidden
\* video.
C17_DeleteKeywordHides ==
    [][/\ \A k \in DeleteInputs :
             UserDeleteKeywordHide(k) =>
                 /\ keywords' = keywords
                 /\ Containing(k) \subseteq hidden_videos'
       /\ UserDeleteKeywordRow =>
             /\ delPending[1] \notin DOMAIN keywords'
             /\ DOMAIN keywords' = DOMAIN keywords \ {delPending[1]}
             /\ \A o \in DOMAIN keywords' : keywords'[o] = keywords[o]
             /\ Containing(delPending[1]) \subseteq hidden_videos
       /\ hidden_videos \subseteq hidden_videos'
       /\ \A q \in Queries, st \in StatusFilters :
             LET rows == list_videos(videos', video_tags', hidden_videos', q, st,
                                     NoLimit, NoLimit)
             IN \A i \in 1..Len(rows) : rows[i] \notin hidden_videos']_vars

\* "go" was added and deleted again: its row is gone, and v2 (title "go")
\* and v1 (a tag "go") are hidden and not listed.
C17_Witness ==
    /\ userOps = 2
    /\ delPending = <<>>
    /\ nextKwId = 3
    /\ KwGo \notin DOMAIN keywords
    /\ DOMAIN videos = {"v1", "v2"}
    /\ ~Like(videos["v1"].title, KwGo)
    /\ <<"v1", KwGo>> \in DOMAIN video_tags
    /\ hidden_videos = {"v1", "v2"}
    /\ list_videos(videos, video_tags, hidden_videos, <<>>, "", NoLimit, NoLimit) = <<>>

\* The ids list_videos returns for the query k and no status filter.
Listed(k) ==
    LET rows == list_videos(videos, video_tags, hidden_videos, k, "", NoLimit, NoLimit)
    IN {rows[i] : i \in 1..Len(rows)}

\* C18: for every keyword string k, typed with blanks or capitals or empty,
\* hide_videos_by_keyword(k) adds to the hidden set exactly the ids that
\* list_videos(query = k, status = '') returns.
C18_HideEqualsList ==
    \A k \in RawKeywords \cup Queries :
        hide_videos_by_keyword(hidden_videos, videos, video_tags, k) \ hidden_videos
            = Listed(k)

----
\* Claims on tags.

\* The tags of tags that are kept: two characters or more without the
\* surrounding blanks.
Kept(tags) == {tags[i] : i \in {j \in 1..Len(tags) : Len(Strip(tags[j])) >= 2}}

\* The first n characters of s, all of s if it has fewer.
Prefix(s, n) == [i \in 1..(IF Len(s) < n THEN Len(s) ELSE n) |-> s[i]]

\* The pairs of the table tbl for video v.
PairsOf(tbl, v) == {x \in DOMAIN tbl : x[1] = v}

\* C19 as stated: save_tags(v, tags) stores exactly the pairs
\* (v, lowercase(trim(t))) for the t with len(trim(t)) >= 2, next to the
\* pairs v had, and leaves the other videos' pairs alone.
C19_StoresNormalized ==
    [][\A v \in VideoIds, tags \in TagInputs :
          CallSaveTags(v, tags) =>
              /\ PairsOf(video_tags', v) =
                    PairsOf(video_tags, v)
                        \cup {<<v, Lower(Strip(t))>> : t \in Kept(tags)}
              /\ \A o \in VideoIds \ {v} :
                    PairsOf(video_tags', o) = PairsOf(video_tags, o)]_vars

\* C19, with the column width: save_tags(v, tags) stores exactly the pairs
\* (v, first 255 characters of lowercase(trim(t))) for the t with
\* len(trim(t)) >= 2, dated today, next to the pairs v had; the pairs of
\* the other videos and the dates of v's other pairs stay; no stored tag is
\* shorter than two characters, has a capital or a surrounding blank.
C19_StoresNormalizedTruncated ==
    [][/\ \A v \in VideoIds, tags \in TagInputs :
             CallSaveTags(v, tags) =>
                 LET new == {<<v, Prefix(Lower(Strip(t)), TagColumn)>> : t \in Kept(tags)}
                 IN /\ DOMAIN video_tags' = DOMAIN video_tags \cup new
                    /\ \A x \in new : video_tags'[x] = today
                    /\ \A x \in DOMAIN video_tags \ new : video_tags'[x] = video_tags[x]
       /\ \A x \in DOMAIN video_tags' :
             /\ Len(x[2]) >= 2
             /\ Len(x[2]) <= TagColumn
             /\ x[2] = Lower(Strip(x[2]))]_vars

\* After ["Python", "  AI "] on day 1 and the variants of "ai" on day 2, v1
\* has the tags "python", of day 1, and "ai", of day 2, once each, and the
\* two long tags as the one tag of 255 characters.
C19_Witness ==
    /\ today = 2
    /\ PairsOf(video_tags, "v1") =
          {<<"v1", <<"p", "y", "t", "h", "o", "n">>>>, <<"v1", KwAi>>,
           <<"v1", [i \in 1..TagColumn |-> "a"]>>}
    /\ video_tags[<<"v1", <<"p", "y", "t", "h", "o", "n">>>>] = 1
    /\ video_tags[<<"v1", KwAi>>] = 2
    /\ PairsOf(video_tags, "v2") = {}

\* C20: every tag that save_tags stored has a row in keywords, with
\* source 'tag'.
C20_TagsAreKeywords ==
    \A x \in DOMAIN video_tags :
        /\ x[2] \in DOMAIN keywords
        /\ keywords[x[2]].source = "tag"

----
\* Claims on the collection of a tick.

\* C21: a search whose page requests all succeed returns the items with a
\* video id of every page up to the page without token, in order; the loop
\* of the keyword half upserts the first item of what is left of that list
\* and drops it only after its upsert, and the keyword is marked only when
\* nothing is left.
C21_EveryPageCollected ==
    [][\A e \in Procs :
          /\ FetchKeyword(e) =>
                /\ \A script \in ScriptsOf(catalog.items) :
                      ~HasFailure(script) =>
                          LET r == search_latest_paginated(script, NoLimit) IN
                          /\ ~r.raised
                          /\ r.results = ItemsOfPages(script, Len(script), "")
                /\ \A script \in ScriptsOf(catalog.items) :
                      (~HasFailure(script) /\ ItemsOfPages(script, Len(script), "") # <<>>)
                          => ENABLED (/\ FetchKeyword(e)
                                      /\ queue'[e] = ItemsOfPages(script, Len(script), ""))
          /\ Upsert(e) =>
                LET it == Head(queue[e]) IN
                /\ DOMAIN videos' = DOMAIN videos \cup {it.video_id}
                /\ videos'[it.video_id].title = it.title
                /\ videos'[it.video_id].published_at = it.published_at
                /\ queue'[e] = queue[e]
          /\ (pc[e] \in {"upsert", "tags", "mark"} /\ queue'[e] # queue[e]
                 /\ pc'[e] \in TickPcs) =>
                /\ pc[e] = "tags"
                /\ queue'[e] = Tail(queue[e])
                /\ Head(queue[e]).video_id \in DOMAIN videos
          /\ (Mark(e) /\ ~InChannelHalf(e)) =>
                /\ queue[e] = <<>>
                /\ keywords'[selKw[e]].updated_date = today]_vars

\* The keyword half collected v1 and v2, which takes two pages, and marked
\* "it".
C21_Witness ==
    /\ pc["cron"] = "pick_ch"
    /\ selKw["cron"] = SeedKeyword
    /\ keywords[SeedKeyword].updated_date = today
    /\ DOMAIN videos = {"v1", "v2"}
    /\ videos["v1"].status = "NEW"
    /\ videos["v2"].status = "NEW"

\* The rows save_tags writes for video v from the tag list tl.
ExternalPairs(v, tl) ==
    {<<v, Prefix(Lower(Strip(tl[i])), TagColumn)>> :
        i \in {j \in 1..Len(tl) : Len(Strip(tl[j])) >= 2}}

\* C22: the tag step of a collection stores, for a video whose reported tag
\* list is not empty, exactly the normalized tags of that list, and for a
\* video without reported tags nothing; it touches no keyword and consults
\* no extraction; tag rows are written by no other step.
C22_TagsFromExternalOnly ==
    [][/\ \A e \in Procs :
             Tags(e) =>
                 /\ \E tl \in catalog.tags :
                       LET new == ExternalPairs(Head(queue[e]).video_id, tl) IN
                       /\ DOMAIN video_tags' = DOMAIN video_tags \cup new
                       /\ \A x \in new : video_tags'[x] = today
                       /\ \A x \in DOMAIN video_tags \ new : video_tags'[x] = video_tags[x]
                 /\ UNCHANGED <<keywords, nextKwId, ai>>
       /\ video_tags' # video_tags => \E e \in Procs : Tags(e)]_vars

\* The reported tags "Ai" and " ai " of v1 were stored as the one tag "ai";
\* v2, collected before it, has no tag.
C22_Witness ==
    /\ pc["cron"] = "mark"
    /\ DOMAIN videos = {"v1", "v2"}
    /\ DOMAIN video_tags = {<<"v1", KwAi>>}
    /\ video_tags[<<"v1", KwAi>>] = today

----
\* Claims on the extraction.

\* The maximal runs, of two characters or more, of characters of cls in
\* text, as pairs of first and last position.
Runs(text, cls) ==
    {r \in (1..Len(text)) \X (1..Len(text)) :
        /\ r[1] < r[2]
        /\ \A i \in r[1]..r[2] : text[i] \in cls
        /\ r[1] = 1 \/ text[r[1] - 1] \notin cls
        /\ r[2] = Len(text) \/ text[r[2] + 1] \notin cls}

\* Where the token w first starts in text.
FirstAt(text, cls, w) ==
    CHOOSE a \in 1..Len(text) :
        /\ \E r \in Runs(text, cls) : r[1] = a /\ SubSeq(text, r[1], r[2]) = w
        /\ \A r \in Runs(text, cls) : SubSeq(text, r[1], r[2]) = w => a <= r[1]

\* out lists the first at most 5 distinct tokens of text that are no stop
\* words, in first-seen order.
IsHeuristic(out, text, cls) ==
    LET words == {SubSeq(text, r[1], r[2]) : r \in Runs(text, cls)} \ StopWords IN
    /\ Len(out) = IF Cardinality(words) < 5 THEN Cardinality(words) ELSE 5
    /\ \A i \in 1..Len(out) : out[i] \in words
    /\ \A i, j \in 1..Len(out) :
          i < j => FirstAt(text, cls, out[i]) < FirstAt(text, cls, out[j])
    /\ \A w \in words :
          (\A i \in 1..Len(out) : out[i] # w) =>
              \A i \in 1..Len(out) : FirstAt(text, cls, out[i]) < FirstAt(text, cls, w)

\* The text the heuristic of the call works on.
ExtractText == Lower(fetchIn.title \o <<" ">> \o fetchIn.description)

\* C23 as stated: with AI disabled, extract returns the first at most 5
\* distinct tokens of lowercase(title + ' ' + description) outside the stop
\* words, in first-seen order, the tokens being the runs of two or more
\* alphanumeric or Hangul characters.
C23_HeuristicAlphanumeric ==
    (fetchOut # NoOutcome /\ ~fetchIn.ai.enabled) =>
        /\ ~fetchOut.raised
        /\ IsHeuristic(fetchOut.results, ExtractText, Alphanumeric \cup Hangul)

\* C23, with the signs of the pattern: with AI disabled, extract returns
\* the first at most 5 distinct tokens of lowercase(title + ' ' +
\* description) outside the stop words, in first-seen order, the tokens
\* being the runs of two or more characters that are alphanumeric, Hangul,
\* '+', '#' or '.'; it calls no provider and the result is a function of
\* title and description.
C23_HeuristicTokens ==
    (fetchOut # NoOutcome /\ ~fetchIn.ai.enabled) =>
        /\ ~fetchOut.raised
        /\ fetchOut.trace = <<"extract">>
        /\ IsHeuristic(fetchOut.results, ExtractText,
                       Alphanumeric \cup Hangul \cup {"+", "#", "."})
        /\ \A r \in ExtractResponses, c \in AiConfigs \cup {NoAi} :
              ~c.enabled =>
                  extract(c, r, fetchIn.title, fetchIn.description).results
                      = fetchOut.results

\* "Go 1.22 News" with "ai go c# js py k8s": seven distinct tokens outside
\* the stop words, of which the first five are returned.
C23_Witness ==
    /\ ~fetchIn.ai.enabled
    /\ fetchOut.trace = <<"extract">>
    /\ fetchOut.results =
          << <<"g", "o">>, <<"1", ".", "2", "2">>, <<"a", "i">>, <<"c", "#">>,
             <<"j", "s">> >>

----
\* Claims on listing and on the status of a video.

\* The visible videos the query q matches.
Matching(q) ==
    {v \in DOMAIN videos \ hidden_videos :
        q = <<>> \/ Like(videos[v].title, q)
                 \/ \E x \in DOMAIN video_tags : x[1] = v /\ Like(x[2], q)}

\* The statuses a status filter accepts.
Accepted(s) ==
    IF s = "" THEN StatusSet
    ELSE IF s = "UNWATCHED" THEN {"NEW", "UNWATCHED"}
    ELSE {s}

\* C24: list_videos(q, s) returns, each once, exactly the visible videos
\* matching q whose status is NEW or UNWATCHED for s = 'UNWATCHED', is s for
\* s = NEW, WATCHING or WATCHED, and is any for s = ''; list_videos_count
\* counts the same videos.
C24_StatusFilter ==
    \A q \in Queries, s \in StatusFilters :
        LET rows == list_videos(videos, video_tags, hidden_videos, q, s, NoLimit, NoLimit)
            want == {v \in Matching(q) : videos[v].status \in Accepted(s)}
        IN /\ {rows[i] : i \in 1..Len(rows)} = want
           /\ Len(rows) = Cardinality(want)
           /\ list_videos_count(videos, video_tags, hidden_videos, q, s) = Cardinality(want)

\* A user command left v1 NEW and v2 UNWATCHED, both visible: the filter
\* UNWATCHED lists both, the filter NEW only v1.
C24_Witness ==
    /\ userOps >= 1
    /\ hidden_videos = {}
    /\ DOMAIN videos = {"v1", "v2"}
    /\ videos["v1"].status = "NEW"
    /\ videos["v2"].status = "UNWATCHED"
    /\ videos["v2"].watch_updated_at = now
    /\ Len(list_videos(videos, video_tags, hidden_videos, <<>>, "UNWATCHED",
                       NoLimit, NoLimit)) = 2
    /\ list_videos(videos, video_tags, hidden_videos, <<>>, "NEW", NoLimit, NoLimit)
          = <<"v1">>

\* C25: set_watch_status(v, s) is possible for every stored video, whatever
\* its status, and every s of the four statuses, and leaves v with status s
\* and every other video as it was; on an unknown video id it changes no
\* table; and every video's status is one of the four values in every
\* reachable state.
C25_AnyTransition ==
    /\ [](\A v \in DOMAIN videos : videos[v].status \in StatusSet)
    /\ [](userOps < MaxUserOps
            => \A v \in DOMAIN videos, st \in StatusSet : ENABLED UserSetStatus(v, st))
    /\ [][\A v \in VideoIds, st \in StatusSet :
            (userOps' # userOps /\ hidden_videos' = hidden_videos
               /\ UserSetStatus(v, st))
            => IF v \in DOMAIN videos
               THEN /\ DOMAIN videos' = DOMAIN videos
                    /\ videos'[v].status = st
                    /\ \A o \in DOMAIN videos \ {v} : videos'[o] = videos[o]
               ELSE UNCHANGED <<videos, video_tags, hidden_videos, keywords,
                                channels>>]_vars

\* Commands of the user set v2, stored at time 0, to NEW at time now, and v1,
\* stored as WATCHED or collected since, to WATCHING.
C25_Witness ==
    /\ userOps = 2
    /\ DOMAIN videos = {"v1", "v2"}
    /\ videos["v2"].status = "NEW"
    /\ videos["v2"].watch_updated_at = now
    /\ videos["v1"].status = "WATCHING"

----
\* Claims on the two halves of a tick.

\* C26: the --reset-due block sets the updated_date of every keyword and
\* every channel to today - 1, so that each of them is due; and the tick of
\* that invocation selects a keyword and selects a channel: unless the
\* store fails, it does not end, normally or by an exception, with channel
\* c1 still dated today - 1 by the block and no channel selected.
C26_ResetThenBothSelected ==
    /\ [][(CronStart /\ (keywords' # keywords \/ channels' # channels))
            => /\ DOMAIN keywords' = DOMAIN keywords
               /\ DOMAIN channels' = DOMAIN channels
               /\ \A k \in DOMAIN keywords : keywords'[k].updated_date = today - 1
               /\ \A c \in DOMAIN channels : channels'[c].updated_date = today - 1
               /\ DueKeywords' = DOMAIN keywords
               /\ DueChannels' = DOMAIN channels]_vars
    /\ []((/\ pc["cron"] \in {"raised", "end"}
           /\ err["cron"] # "store"
           /\ channels["c1"].updated_date = today - 1)
            => selCh["cron"] # "")

\* A tick with nothing due changes no keyword, channel, video or tag and,
\* unless the store fails, raises nothing.
NothingDueNoChange ==
    [][(/\ pc["cron"] \in TickPcs
        /\ pc'["cron"] # pc["cron"]
        /\ keywords # <<>>
        /\ DueKeywords = {}
        /\ DueChannels = {})
         => /\ UNCHANGED <<keywords, channels, videos, video_tags>>
            /\ pc'["cron"] = "raised" => err'["cron"] = "store"]_vars

\* C27: the channel half of a tick does not depend on the keyword half:
\* unless the store fails, no tick ends, normally or by an exception of its
\* keyword half, with channel c1 due and not selected, and a tick that
\* selected it and ends normally has marked it; and a tick with neither a
\* keyword nor a channel due ends normally and changes nothing.
C27_HalvesIndependent ==
    /\ []((/\ pc["cron"] \in {"raised", "end"}
           /\ err["cron"] # "store"
           /\ channels["c1"].updated_date < today)
            => selCh["cron"] = "c1" /\ pc["cron"] = "raised")
    /\ NothingDueNoChange

----
\* Claims on the page loop of the fetchers.

\* The number of page requests a call issued.
Requests == Cardinality({i \in DOMAIN fetchOut.trace : fetchOut.trace[i] = "request"})

\* C28: a call of search_latest_paginated or channel_latest_paginated ends,
\* whatever the conversation and max_pages; it issued at least one request,
\* never more than max_pages when max_pages is set, went on to a further
\* request only after a response that carried a continuation token, and
\* stopped at a response that carried none or at the max_pages-th request.
C28_StopRule ==
    IF fetchOut = NoOutcome
    THEN ENABLED (CallSearch \/ CallChannel)
    ELSE LET n == Requests
             script == fetchIn.script
             max_pages == fetchIn.max_pages
         IN /\ n >= 1
            /\ n <= Len(script)
            /\ max_pages # NoLimit => n <= max_pages
            /\ \A i \in 1..(n - 1) : script[i].kind = "ok" /\ script[i].token
            /\ \/ script[n].kind # "ok"
               \/ ~script[n].token
               \/ max_pages # NoLimit /\ n = max_pages

\* With max_pages = 1 the call stopped after one request although the
\* response carried a token, and returned the items of that page.
C28_Witness ==
    /\ fetchOut # NoOutcome
    /\ fetchIn.max_pages = 1
    /\ fetchIn.script[1].kind = "ok"
    /\ fetchIn.script[1].token
    /\ Requests = 1
    /\ fetchOut.results # <<>>
    /\ ~fetchOut.raised

----
\* Claims on hiding and status.

\* The step is hide_video, hide_videos_by_tag, the hide_videos_by_keyword
\* of delete_keyword or its DELETE.
HideStep ==
    \/ \E v \in VideoIds : UserHide(v)
    \/ \E tag \in RawKeywords : UserHideByTag(tag)
    \/ \E k \in DeleteInputs : UserDeleteKeywordHide(k)
    \/ UserDeleteKeywordRow

\* C29: hide_video, hide_videos_by_tag, hide_videos_by_keyword and
\* delete_keyword leave every row of videos and of video_tags as it is; and
\* every step that changes hidden_videos is one of these, so that
\* set_watch_status, upsert_video, save_tags and the sweep never change it.
C29_HidingOrthogonal ==
    [][/\ ((userOps' # userOps \/ delPending' # delPending) /\ HideStep)
            => UNCHANGED <<videos, video_tags>>
       /\ hidden_videos' # hidden_videos
            => HideStep /\ UNCHANGED <<videos, video_tags, pc>>
       /\ (pc' # pc \/ videos' # videos \/ video_tags' # video_tags)
            => hidden_videos' = hidden_videos]_vars

\* The tick stored v1 and v2 with tags and the sweep moved v2 to UNWATCHED,
\* while the user hid v1 and opened it: v1 is hidden and WATCHING.
C29_Witness ==
    /\ pc["cron"] = "done"
    /\ DOMAIN videos = {"v1", "v2"}
    /\ hidden_videos = {"v1"}
    /\ videos["v1"].status = "WATCHING"
    /\ videos["v2"].status = "UNWATCHED"
    /\ \E x \in DOMAIN video_tags : x[1] = "v1"

----
\* Claims on the tag lookup of a tick.

\* C30: the tag lookup of an item never ends the tick: whatever the
\* response of the videos endpoint, the statement after upsert_video leaves
\* the video stored and goes on to the next item or to the mark of the
\* keyword or channel, and no tick is left by an exception of video_tags.
C30_TagLookupNeverFatal ==
    /\ [][Tags("cron")
            => /\ Head(queue["cron"]).video_id \in DOMAIN videos'
               /\ pc'["cron"] \in {"upsert", "mark"}]_vars
    /\ [](pc["cron"] = "raised" => err["cron"] # "tags")

----
\* Claims on the classification sweep.

----
\* Claims on the delay between page requests.

\* C32: the requests and delays of one call alternate, starting with a
\* request: every request after the first comes directly after exactly one
\* delay, and that delay comes directly after the request whose response,
\* a body with a continuation token, was processed before it.
C32_DelayBetweenRequests ==
    fetchOut # NoOutcome =>
        LET t == fetchOut.trace IN
        /\ t # <<>>
        /\ \A i \in 1..Len(t) : t[i] = IF i % 2 = 1 THEN "request" ELSE "sleep"
        /\ \A i \in 1..Len(t) :
              t[i] = "sleep" => /\ fetchIn.script[i \div 2].kind = "ok"
                                /\ fetchIn.script[i \div 2].token
        /\ \A i, j \in 1..Len(t) :
              (i < j /\ t[i] = "request" /\ t[j] = "request")
                 => \E k \in (i + 1)..(j - 1) : t[k] = "sleep"

\* A call that requested two pages, both with an item, and slept once in
\* between.
C32_Witness ==
    /\ fetchOut.trace = <<"request", "sleep", "request">>
    /\ Len(fetchOut.results) = 2
    /\ ~fetchOut.raised

----
\* Claims on the fallback of the extractor.

\* C33: extract raises nothing; with AI enabled it returns the list of the
\* provider when the provider is consulted and yields a non-empty list, and
\* in every other case (no credential, the call throws, the text is no
\* JSON, the JSON is no array, the array is empty) exactly the result of
\* the heuristic for the same title and description, which is also what it
\* returns with AI disabled.
C33_ExtractFallsBack ==
    (fetchOut # NoOutcome /\ fetchIn.ai.enabled) =>
        /\ ~fetchOut.raised
        /\ IF CallsProvider(fetchIn.ai) /\ fetchIn.resp = "list"
           THEN /\ fetchOut.results = <<<<"k", "8", "s">>>>
                /\ fetchOut.trace = <<"extract", "provider">>
           ELSE /\ IsHeuristic(fetchOut.results, ExtractText, TokenChars)
                /\ fetchOut.results
                     = extract(NoAi, fetchIn.resp, fetchIn.title,
                               fetchIn.description).results

\* The provider was consulted for "c++ AI" and answered with text that is
\* no JSON: the result is the heuristic's, c++ and ai.
C33_Witness ==
    /\ CallsProvider(fetchIn.ai)
    /\ fetchIn.resp = "not_json"
    /\ fetchOut.trace = <<"extract", "provider">>
    /\ ~fetchOut.raised
    /\ fetchOut.results = << <<"c", "+", "+">>, <<"a", "i">> >>

----
\* Claims on the window and the count of a listing.

\* C34: for every query, status filter and limit, given with an offset or
\* without one (then the window starts at the first row), list_videos
\* returns at most limit rows, the rows at positions offset .. offset +
\* limit - 1 of the listing without window, which is ordered by published_at
\* descending and, among equals, by status rank.
C34_LimitWindow ==
    \A q \in Queries, s \in StatusFilters, limit \in 1..2, offset \in {NoLimit, 0, 1} :
        LET all == list_videos(videos, video_tags, hidden_videos, q, s, NoLimit, NoLimit)
            rows == list_videos(videos, video_tags, hidden_videos, q, s, limit, offset)
            first == IF offset = NoLimit THEN 0 ELSE offset
            last == IF first + limit < Len(all) THEN first + limit ELSE Len(all)
        IN /\ Len(rows) <= limit
           /\ rows = SubSeq(all, first + 1, last)
           /\ \A i, j \in 1..Len(all) :
                 i < j =>
                    \/ videos[all[i]].published_at > videos[all[j]].published_at
                    \/ /\ videos[all[i]].published_at = videos[all[j]].published_at
                       /\ StatusRank(videos[all[i]].status)
                             <= StatusRank(videos[all[j]].status)

----
\* Claims on the permanence of videos and of hiding.

\* C35: no step removes a row of videos or a video id of hidden_videos, be
\* it a statement of a tick (upsert_video of a hidden video included), of
\* the sweep, or a command (add keyword after delete keyword included); and
\* in every state no listing, whatever its query and status filter, returns
\* a hidden video.
C35_NeverRemoved ==
    /\ [][/\ DOMAIN videos \subseteq DOMAIN videos'
          /\ hidden_videos \subseteq hidden_videos']_vars
    /\ [](hidden_videos # {} =>
            \A q \in Queries, s \in StatusFilters :
               LET rows == list_videos(videos, video_tags, hidden_videos, q, s,
                                       NoLimit, NoLimit)
               IN \A i \in 1..Len(rows) : rows[i] \notin hidden_videos)

\* delete keyword "Ai" hid the collected v1 and removed the row of "ai", and
\* the user added "ai" again (it has a new id): at the end of the invocation
\* v1 is stored, still hidden and not listed.
C35_Witness ==
    /\ pc["cron"] = "done"
    /\ userOps = 2
    /\ KwAi \in DOMAIN keywords
    /\ keywords[KwAi].id = 3
    /\ DOMAIN videos = {"v1", "v2"}
    /\ hidden_videos = {"v1"}
    /\ list_videos(videos, video_tags, hidden_videos, <<"a", "i">>, "", NoLimit, NoLimit)
          = <<>>

----
\* Claims on the count of a listing.

\* C36: in every state of the store and for every query and status filter,
\* list_videos_count returns the number of rows list_videos returns for
\* the same query and status without limit and offset.
C36_CountAgrees ==
    \A q \in Queries, s \in StatusFilters :
        list_videos_count(videos, video_tags, hidden_videos, q, s)
            = Len(list_videos(videos, video_tags, hidden_videos, q, s, NoLimit, NoLimit))

\* After a command of the user two videos are stored and v2 is hidden: the
\* listing without filter returns v1 alone and the count is 1; with the
\* filter WATCHED both are 0.
C36_Witness ==
    /\ userOps >= 1
    /\ DOMAIN videos = {"v1", "v2"}
    /\ hidden_videos = {"v2"}
    /\ videos["v1"].status = "WATCHING"
    /\ list_videos_count(videos, video_tags, hidden_videos, <<>>, "") = 1
    /\ list_videos(videos, video_tags, hidden_videos, <<>>, "", NoLimit, NoLimit) = <<"v1">>
    /\ list_videos_count(videos, video_tags, hidden_videos, <<>>, "WATCHED") = 0

----
\* Claims on the videos the sweep leaves NEW.

\* The stored videos with status NEW.
NewVideos == {v \in DOMAIN videos : videos[v].status = "NEW"}

\* C37: get_new_videos returns each video with status NEW, hidden or not,
\* once, in the order of insertion, and nothing else; every sweep reads
\* this list, so a video still NEW is classified again; a row the
\* classifier judges non-technical leaves the videos table as it was; and
\* a video leaves NEW only by a command of the user or by a sweep that
\* judged it technical.
C37_NonTechnicalStaysNew ==
    /\ [](LET rows == get_new_videos(videos) IN
          /\ {rows[i] : i \in 1..Len(rows)} = NewVideos
          /\ Len(rows) = Cardinality(NewVideos)
          /\ \A i, j \in 1..Len(rows) : i < j => videos[rows[i]].id < videos[rows[j]].id)
    /\ [][/\ SweepRead
               => {newRows'[i].video_id : i \in 1..Len(newRows')} = NewVideos
          /\ \A i \in DOMAIN newRows :
                (SweepItem /\ newRows[i].response = "" /\ newRows'[i].response = "false")
                   => videos' = videos
          /\ \A v \in NewVideos :
                videos'[v].status # "NEW"
                   => \/ userOps' # userOps
                      \/ /\ SweepItem
                         /\ \E i \in DOMAIN newRows :
                               /\ newRows[i].video_id = v
                               /\ newRows[i].response = ""
                               /\ newRows'[i].response \notin {"", "false"}]_vars

\* The sweep of the second invocation read v2, hidden, and v1 and judged
\* both non-technical: both are NEW as they were stored at time 0.
C37_Witness ==
    /\ runs = MaxRuns
    /\ pc["cron"] = "sweep_done"
    /\ userOps = 0
    /\ hidden_videos = {"v2"}
    /\ Len(newRows) = 2
    /\ newRows[1].video_id = "v2"
    /\ \A i \in 1..2 : newRows[i].response = "false"
    /\ \A v \in VideoIds : videos[v].status = "NEW" /\ videos[v].watch_updated_at = 0

----
\* Claims on the date a manual keyword gets.

\* Add keyword leaves each keyword of its input stored with source manual
\* and updated_date today, be it new or not, hence not due, and stores no
\* video.
AddedToday ==
    \A raw \in RawKeywords :
        UserAddKeyword(raw) =>
            /\ videos' = videos
            /\ \A kw \in ManualSet({raw}) :
                  /\ kw \in DOMAIN keywords'
                  /\ keywords'[kw].source = "manual"
                  /\ keywords'[kw].updated_date = today
                  /\ kw \notin get_one_keyword_due_for_collect(keywords', today)

\* C38 as stated: save_manual_keywords stores its keywords with source
\* manual and updated_date today, and get_one_keyword_due_for_collect
\* selects no keyword that a command inserted today.
C38_AddedNeverSelectedToday ==
    [][/\ (userOps' # userOps) => AddedToday
       /\ (PickKeyword("cron") /\ selKw'["cron"] # <<>>)
            => \/ keywords[selKw'["cron"]].created_date < today
               \/ keywords[selKw'["cron"]].source = "seed"]_vars

\* C38, with the maintenance flag: save_manual_keywords stores its
\* keywords with source manual and updated_date today; a keyword that is
\* not due becomes due on the same day by no step but the --reset-due block
\* of main, and a tick selects due keywords only.
C38_AddedNotDueUntilReset ==
    [][/\ (userOps' # userOps) => AddedToday
       /\ \A k \in DOMAIN keywords \ DueKeywords :
             (k \in DOMAIN keywords' /\ keywords'[k].updated_date < today)
                => CronStart /\ keywords' = ResetDue(keywords, today)
       /\ (PickKeyword("cron") /\ selKw'["cron"] # <<>>)
            => selKw'["cron"] \in DueKeywords]_vars

\* The user added "ai" and added "go" again; the invocation, without
\* --reset-due, collected "it" and ended: "ai" and "go" are dated today and
\* no video was stored for them.
C38_Witness ==
    /\ pc["cron"] = "done"
    /\ exitCode = 0
    /\ userOps = 2
    /\ KwAi \in DOMAIN keywords
    /\ keywords[KwAi] = [id |-> 3, source |-> "manual", created_date |-> today,
                         updated_date |-> today]
    /\ keywords[KwGo].updated_date = today
    /\ keywords[KwGo].created_date < today
    /\ keywords[SeedKeyword].updated_date = today

====
